---- MODULE Spec2Model ----
(***************************************************************************)
(* Wishlist application: the anonymous claim protocol, ownership-scoped    *)
(* list/item operations and cascading deletion over the four collections   *)
(* users, lists, items and claims of the shared document store.            *)
(*                                                                         *)
(* Two handler sets work on the same store: the Express routes under       *)
(* backend/ and the legacy serverless functions under api/.  Where both    *)
(* run the same steps one definition models both; where the legacy code    *)
(* differs it has a definition of its own (suffix Serverless).             *)
(*                                                                         *)
(* Requests are the ones that pass the rate limiter; identifiers are       *)
(* well-formed 24-hex strings.                                             *)
(***************************************************************************)
EXTENDS Naturals, FiniteSets, Sequences, TLC

(***************************************************************************)
(* Bounds of the model.                                                    *)
(***************************************************************************)
MaxLists == 2
MaxItems == 2
MaxClaims == 2
NumTokens == 2
NumShareIds == 2

(***************************************************************************)
(* Program constants.                                                      *)
(***************************************************************************)
maxAttempts == 5
MinTokenLength == 10
MinPasswordLength == 8
NanoidTokenLength == 32

UserIds == {1, 2}
Procs == {1, 2}
ListIds == 1..MaxLists
ItemIds == 1..MaxItems
ClaimIds == 1..MaxClaims
SecretTokens == 1..NumTokens
ShareIds == 1..NumShareIds
ClaimerNames == {"Al"}

(***************************************************************************)
(* ObjectId <-> 24-hex string.  _id fields hold ObjectIds (naturals here); *)
(* ownerId, listId, itemId and the JWT's userId hold the hex string.       *)
(***************************************************************************)
IdString(oid) == <<"hex", oid>>
ObjectId(str) == str[2]
NoId == IdString(0)

(***************************************************************************)
(* bcrypt: hash at signup, compare at re-authentication.                   *)
(***************************************************************************)
Hash(password) == <<"bcrypt", password>>
BcryptCompare(password, passwordHash) == Hash(password) = passwordHash

PasswordOf(u) == IF u = 1 THEN "password-1" ELSE "password-2"
\* The passwords requests supply: user 1's, one that is no user's, and one
\* shorter than passwordSchema's minimum.  The users are interchangeable, so
\* it is user 1's account that gets deleted.
WrongPassword == "password-0"
ShortPassword == "short"
Passwords == {PasswordOf(1), WrongPassword}

(***************************************************************************)
(* Length of a supplied retraction token: tokens 1..NumTokens stand for    *)
(* distinct nanoid(32) outputs, 0 for a string shorter than the schema's   *)
(* minimum.                                                                *)
(***************************************************************************)
ShortToken == 0
TokenLength(token) == IF token = ShortToken THEN 4 ELSE NanoidTokenLength
SuppliedTokens == SecretTokens \cup {ShortToken}

VARIABLES users, lists, items, claims, nextId, cc, last,
          rq, rateLimitStore, now, admittedAt

vars == <<users, lists, items, claims, nextId, cc, last,
          rq, rateLimitStore, now, admittedAt>>
store == <<users, lists, items, claims, nextId>>
\* The request served one store call at a time (rq) and the rate limiter's
\* map and clock: state the handlers below neither read nor write.
\* admittedAt records, per identifier, the times at which requests were
\* admitted during the last window's length; no handler reads it.
aux == <<rq, rateLimitStore, now, admittedAt>>

(***************************************************************************)
(* Session cookie: absent, or a JWT naming a userId whose signature and    *)
(* expiry verify (valid) or do not.                                        *)
(***************************************************************************)
NoCookie == [present |-> FALSE, valid |-> FALSE, userId |-> NoId]
ForgedCookie == [present |-> TRUE, valid |-> FALSE, userId |-> IdString(1)]
Cookies ==
  {NoCookie, ForgedCookie} \cup
  [present : {TRUE}, valid : {TRUE}, userId : {IdString(u) : u \in UserIds}]

verifyToken(cookie) == cookie.present /\ cookie.valid

\* requireAuth: 401 unless the cookie's token verifies.  The legacy handlers call
\* their own requireAuth(req) first and answer 401 on the same condition.
requireAuth(cookie) == verifyToken(cookie)

(***************************************************************************)
(* Store queries.                                                          *)
(***************************************************************************)
UsersById(oid) == {u \in users : u._id = oid}
ListsById(oid) == {l \in lists : l._id = oid}
ListsByIdAndOwner(oid, ownerId) == {l \in lists : l._id = oid /\ l.ownerId = ownerId}
ListsByOwner(ownerId) == {l \in lists : l.ownerId = ownerId}
ListsByShareId(shareId) == {l \in lists : l.shareId = shareId}
ItemsById(oid) == {i \in items : i._id = oid}
ItemsByListId(listId) == {i \in items : i.listId = listId}
ItemsByListIdIn(listIds) == {i \in items : i.listId \in listIds}
ClaimsById(oid) == {c \in claims : c._id = oid}
ClaimsByItemId(itemId) == {c \in claims : c.itemId = itemId}
ClaimsByItemIdIn(itemIds) == {c \in claims : c.itemId \in itemIds}
ClaimsByToken(secretToken) == {c \in claims : c.secretToken = secretToken}

IdleProc ==
  [pc |-> "idle", itemId |-> NoId, listId |-> NoId, claimerName |-> "",
   secretToken |-> 0, attempts |-> 0]

\* A delete-list, delete-user or create-item request between two store
\* calls: its position and its live locals.
IdleRq ==
  [op |-> "none", pc |-> "idle", userId |-> NoId, id |-> NoId,
   listIds |-> {}, itemIds |-> {}, route |-> "none", fetches |-> 0, deadline |-> 0]

\* The rate limiter's Map: identifier -> {count, resetTime}, or no entry.
\* The middleware keys on keyPrefix:ip, the legacy handlers on a prefix and
\* the ip or the user id.
ExpressIdentifiers == {"general:10.0.0.1"}
ServerlessIdentifiers == {"lists:1"}
Identifiers == ExpressIdentifiers \cup ServerlessIdentifiers
NoEntry == [present |-> FALSE, count |-> 0, resetTime |-> 0]
AuxInit ==
  /\ rq = IdleRq
  /\ rateLimitStore = [identifier \in Identifiers |-> NoEntry]
  /\ now = 0
  /\ admittedAt = [identifier \in Identifiers |-> <<>>]

\* What the client observes of a request: the status, what the response does
\* to the session cookie, and the body's documents.
Response(op, status, cookie, body) ==
  [op |-> op, status |-> status, cookie |-> cookie, body |-> body]

Init ==
  /\ users = {[_id |-> u, passwordHash |-> Hash(PasswordOf(u))] : u \in UserIds}
  /\ lists = {}
  /\ items = {}
  /\ claims = {}
  /\ nextId = [lists |-> 1, items |-> 1, claims |-> 1]
  /\ cc = [p \in Procs |-> IdleProc]
  /\ last = Response("none", 0, "unchanged", {})
  /\ AuxInit

(***************************************************************************)
(* The uniqueness loop of create-list (shareId) and create-claim           *)
(* (secretToken): draws[i] is the i-th nanoid() output of the request,     *)
(* taken the values the collection holds.  The loop's result is the last   *)
(* value drawn and whether no stored document held it.                     *)
(***************************************************************************)
\* Mutation of UniqueLoop: a single candidate is drawn.
UniqueLoopOneDraw(draws, taken, attempts) ==
  [isUnique |-> draws[1] \notin taken, value |-> draws[1]]

RECURSIVE UniqueLoop(_, _, _)
UniqueLoop(draws, taken, attempts) ==
  IF attempts >= maxAttempts
    THEN [isUnique |-> FALSE, value |-> draws[attempts]]
    ELSE IF draws[attempts + 1] \notin taken
      THEN [isUnique |-> TRUE, value |-> draws[attempts + 1]]
      ELSE UniqueLoop(draws, taken, attempts + 1)

NanoidDraws(alphabet) == [1..maxAttempts -> alphabet]

\* The results the loop can reach, over every sequence of nanoid() outputs,
\* tabulated by the set of values taken.
GenerateUnique(alphabet) ==
  [taken \in SUBSET alphabet |->
     {UniqueLoop(draws, taken, 0) : draws \in NanoidDraws(alphabet)}]
GenerateShareId == GenerateUnique(ShareIds)
GenerateSecretToken == GenerateUnique(SecretTokens)

Respond(op, status, cookie, body) ==
  /\ last' = Response(op, status, cookie, body)
  /\ UNCHANGED aux

(***************************************************************************)
(* POST /api/lists                                                         *)
(***************************************************************************)
CreateList(cookie, isPublic) ==
  /\ nextId.lists <= MaxLists
  /\ IF ~requireAuth(cookie)
       THEN /\ Respond("createList", 401, "unchanged", {})
            /\ UNCHANGED <<store, cc>>
       ELSE \E gen \in GenerateShareId[{l.shareId : l \in lists}] :
               IF ~gen.isUnique
                 THEN /\ Respond("createList", 500, "unchanged", {})
                      /\ UNCHANGED <<store, cc>>
                 ELSE /\ lists' = lists \cup
                          {[_id |-> nextId.lists, ownerId |-> cookie.userId,
                            isPublic |-> isPublic, shareId |-> gen.value]}
                      /\ nextId' = [nextId EXCEPT !.lists = @ + 1]
                      /\ Respond("createList", 201, "unchanged", {})
                      /\ UNCHANGED <<users, items, claims, cc>>

(***************************************************************************)
(* PATCH /api/lists/:id                                                    *)
(***************************************************************************)
UpdateList(cookie, id, setPublic) ==
  IF ~requireAuth(cookie)
    THEN /\ Respond("updateList", 401, "unchanged", {})
         /\ UNCHANGED <<store, cc>>
    ELSE IF ListsByIdAndOwner(ObjectId(id), cookie.userId) = {}
      THEN /\ Respond("updateList", 404, "unchanged", {})
           /\ UNCHANGED <<store, cc>>
      ELSE /\ lists' = {IF l._id = ObjectId(id) /\ setPublic # "keep"
                          THEN [l EXCEPT !.isPublic = (setPublic = "public")]
                          ELSE l : l \in lists}
           /\ Respond("updateList", 200, "unchanged", {})
           /\ UNCHANGED <<users, items, claims, nextId, cc>>

(***************************************************************************)
(* POST /api/items                                                         *)
(***************************************************************************)
CreateItem(cookie, listId) ==
  /\ nextId.items <= MaxItems
  /\ IF ~requireAuth(cookie)
       THEN /\ Respond("createItem", 401, "unchanged", {})
            /\ UNCHANGED <<store, cc>>
       ELSE IF ListsByIdAndOwner(ObjectId(listId), cookie.userId) = {}
         THEN /\ Respond("createItem", 404, "unchanged", {})
              /\ UNCHANGED <<store, cc>>
         ELSE /\ items' = items \cup {[_id |-> nextId.items, listId |-> listId]}
              /\ nextId' = [nextId EXCEPT !.items = @ + 1]
              /\ Respond("createItem", 201, "unchanged", {})
              /\ UNCHANGED <<users, lists, claims, cc>>

\* The legacy handler filters lists by {_id: {$toString: listId}}: $toString is
\* no query operator, the store rejects the query and the catch block answers 500.
CreateItemServerless(cookie, listId) ==
  /\ IF ~requireAuth(cookie)
       THEN Respond("createItem", 401, "unchanged", {})
       ELSE Respond("createItem", 500, "unchanged", {})
  /\ UNCHANGED <<store, cc>>

(***************************************************************************)
(* POST /api/claims (Express), one request run from its first store call   *)
(* to its response: item lookup, list lookup, existence check, token loop, *)
(* insert.  gen is a result of the token loop.                             *)
(***************************************************************************)
ClaimView(claimId, c) ==
  [id |-> IdString(claimId), itemId |-> c.itemId, claimerName |-> c.claimerName,
   secretToken |-> c.secretToken]

NewClaim(itemId, claimerName, secretToken) ==
  [_id |-> nextId.claims, itemId |-> itemId, claimerName |-> claimerName,
   secretToken |-> secretToken]

ItemFound(itemId) == ItemsById(ObjectId(itemId)) # {}
ListIdOf(itemId) == (CHOOSE i \in ItemsById(ObjectId(itemId)) : TRUE).listId
ListIsPublic(listId) ==
  LET found == ListsById(ObjectId(listId)) IN
  found # {} /\ (CHOOSE l \in found : TRUE).isPublic
AlreadyClaimed(itemId) == ClaimsByItemId(itemId) # {}
TokenTaken(secretToken) == ClaimsByToken(secretToken) # {}

CreateClaim(itemId, claimerName) ==
  /\ nextId.claims <= MaxClaims
  /\ IF ~ItemFound(itemId)
       THEN /\ Respond("createClaim", 404, "unchanged", {})
            /\ UNCHANGED <<store, cc>>
       ELSE IF ~ListIsPublic(ListIdOf(itemId))
         THEN /\ Respond("createClaim", 403, "unchanged", {})
              /\ UNCHANGED <<store, cc>>
         ELSE IF AlreadyClaimed(itemId)
           THEN /\ Respond("createClaim", 409, "unchanged", {})
                /\ UNCHANGED <<store, cc>>
           ELSE \E gen \in GenerateSecretToken[{c.secretToken : c \in claims}] :
                IF ~gen.isUnique
                  THEN /\ Respond("createClaim", 500, "unchanged", {})
                       /\ UNCHANGED <<store, cc>>
                  ELSE LET newClaim == NewClaim(itemId, claimerName, gen.value) IN
                       /\ claims' = claims \cup {newClaim}
                       /\ nextId' = [nextId EXCEPT !.claims = @ + 1]
                       /\ Respond("createClaim", 201, "unchanged",
                                  {ClaimView(nextId.claims, newClaim)})
                       /\ UNCHANGED <<users, lists, items, cc>>

(***************************************************************************)
(* The same handler as the steps of concurrent requests: it suspends at    *)
(* every store call; cc[p] is the position and the live locals of request  *)
(* p between two calls.                                                    *)
(***************************************************************************)
Finish(p, status, body) ==
  /\ cc' = [cc EXCEPT ![p] = IdleProc]
  /\ Respond("createClaim", status, "unchanged", body)

InFlight == {p \in Procs : cc[p].pc # "idle"}

\* itemsCollection.findOne({_id: new ObjectId(itemId)})
CC_FindItem(p, itemId, claimerName) ==
  /\ cc[p].pc = "idle"
  /\ nextId.claims + Cardinality(InFlight) <= MaxClaims
  /\ IF ~ItemFound(itemId)
       THEN Finish(p, 404, {})
       ELSE /\ cc' = [cc EXCEPT ![p] =
                 [IdleProc EXCEPT !.pc = "list", !.itemId = itemId,
                                  !.listId = ListIdOf(itemId),
                                  !.claimerName = claimerName]]
            /\ UNCHANGED <<last, aux>>
  /\ UNCHANGED store

\* listsCollection.findOne({_id: new ObjectId(item.listId)})
CC_FindList(p) ==
  /\ cc[p].pc = "list"
  /\ IF ~ListIsPublic(cc[p].listId)
       THEN Finish(p, 403, {})
       ELSE /\ cc' = [cc EXCEPT ![p].pc = "claim"]
            /\ UNCHANGED <<last, aux>>
  /\ UNCHANGED store

\* claimsCollection.findOne({itemId: itemId})
CC_FindClaim(p) ==
  /\ cc[p].pc = "claim"
  /\ IF AlreadyClaimed(cc[p].itemId)
       THEN Finish(p, 409, {})
       ELSE /\ cc' = [cc EXCEPT ![p].pc = "token"]
            /\ UNCHANGED <<last, aux>>
  /\ UNCHANGED store

\* One iteration of the token loop: secretToken = nanoid(32);
\* claimsCollection.findOne({secretToken}); attempts++.
CC_DrawToken(p, draw) ==
  /\ cc[p].pc = "token"
  /\ cc[p].attempts < maxAttempts
  /\ IF ~TokenTaken(draw)
       THEN /\ cc' = [cc EXCEPT ![p].pc = "insert", ![p].secretToken = draw,
                                ![p].attempts = 0]
            /\ UNCHANGED <<last, aux>>
       ELSE IF cc[p].attempts + 1 < maxAttempts
         THEN /\ cc' = [cc EXCEPT ![p].attempts = @ + 1]
              /\ UNCHANGED <<last, aux>>
         ELSE Finish(p, 500, {})
  /\ UNCHANGED store

\* Mutation of CC_Insert: the store keeps no unique index on
\* claims.secretToken.
CC_InsertNoTokenIndex(p) ==
  /\ cc[p].pc = "insert"
  /\ LET newClaim == NewClaim(cc[p].itemId, cc[p].claimerName, cc[p].secretToken) IN
     /\ claims' = claims \cup {newClaim}
     /\ nextId' = [nextId EXCEPT !.claims = @ + 1]
     /\ Finish(p, 201, {ClaimView(nextId.claims, newClaim)})
     /\ UNCHANGED <<users, lists, items>>

\* Mutation of CC_Insert: the store keeps a unique index on claims.itemId.
CC_InsertUniqueItemId(p) ==
  /\ cc[p].pc = "insert"
  /\ IF TokenTaken(cc[p].secretToken) \/ AlreadyClaimed(cc[p].itemId)
       THEN /\ Finish(p, 500, {})
            /\ UNCHANGED store
       ELSE LET newClaim == NewClaim(cc[p].itemId, cc[p].claimerName,
                                     cc[p].secretToken) IN
            /\ claims' = claims \cup {newClaim}
            /\ nextId' = [nextId EXCEPT !.claims = @ + 1]
            /\ Finish(p, 201, {ClaimView(nextId.claims, newClaim)})
            /\ UNCHANGED <<users, lists, items>>

\* claimsCollection.insertOne(newClaim): the unique index on secretToken
\* rejects a duplicate token, the catch block answers 500.
CC_Insert(p) ==
  /\ cc[p].pc = "insert"
  /\ IF TokenTaken(cc[p].secretToken)
       THEN /\ Finish(p, 500, {})
            /\ UNCHANGED store
       ELSE LET newClaim == NewClaim(cc[p].itemId, cc[p].claimerName,
                                     cc[p].secretToken) IN
            /\ claims' = claims \cup {newClaim}
            /\ nextId' = [nextId EXCEPT !.claims = @ + 1]
            /\ Finish(p, 201, {ClaimView(nextId.claims, newClaim)})
            /\ UNCHANGED <<users, lists, items>>

(***************************************************************************)
(* POST /api/claims (legacy serverless handler).  After the item lookup it *)
(* filters lists by {_id: {$toString: item.listId}}; the store rejects the *)
(* unknown query operator and the catch block answers 500, so the handler  *)
(* never reaches its existence check or its insert.                        *)
(***************************************************************************)
CreateClaimServerless(itemId, claimerName) ==
  /\ IF ItemsById(ObjectId(itemId)) = {}
       THEN Respond("createClaim", 404, "unchanged", {})
       ELSE Respond("createClaim", 500, "unchanged", {})
  /\ UNCHANGED <<store, cc>>

(***************************************************************************)
(* DELETE /api/claims/:id?token=X (both handler sets run the same steps).  *)
(* The session cookie is an input the handler never reads.                 *)
(***************************************************************************)
\* Mutations of DeleteClaim: one skips the token comparison, one demands a
\* session.
DeleteClaimAnyToken(cookie, id, token) ==
  IF TokenLength(token) < MinTokenLength
    THEN /\ Respond("deleteClaim", 400, "unchanged", {})
         /\ UNCHANGED <<store, cc>>
    ELSE LET found == ClaimsById(ObjectId(id)) IN
      IF found = {}
        THEN /\ Respond("deleteClaim", 404, "unchanged", {})
             /\ UNCHANGED <<store, cc>>
        ELSE /\ claims' = claims \ found
             /\ Respond("deleteClaim", 200, "unchanged", {})
             /\ UNCHANGED <<users, lists, items, nextId, cc>>

DeleteClaimWithSession(cookie, id, token) ==
  IF ~requireAuth(cookie)
    THEN /\ Respond("deleteClaim", 401, "unchanged", {})
         /\ UNCHANGED <<store, cc>>
    ELSE LET found == ClaimsById(ObjectId(id)) IN
      IF TokenLength(token) < MinTokenLength
        THEN /\ Respond("deleteClaim", 400, "unchanged", {})
             /\ UNCHANGED <<store, cc>>
        ELSE IF found = {}
          THEN /\ Respond("deleteClaim", 404, "unchanged", {})
               /\ UNCHANGED <<store, cc>>
          ELSE IF (CHOOSE c \in found : TRUE).secretToken # token
            THEN /\ Respond("deleteClaim", 403, "unchanged", {})
                 /\ UNCHANGED <<store, cc>>
            ELSE /\ claims' = claims \ found
                 /\ Respond("deleteClaim", 200, "unchanged", {})
                 /\ UNCHANGED <<users, lists, items, nextId, cc>>

DeleteClaim(cookie, id, token) ==
  IF TokenLength(token) < MinTokenLength
    THEN /\ Respond("deleteClaim", 400, "unchanged", {})
         /\ UNCHANGED <<store, cc>>
    ELSE LET found == ClaimsById(ObjectId(id)) IN
      IF found = {}
        THEN /\ Respond("deleteClaim", 404, "unchanged", {})
             /\ UNCHANGED <<store, cc>>
        ELSE IF (CHOOSE c \in found : TRUE).secretToken # token
          THEN /\ Respond("deleteClaim", 403, "unchanged", {})
               /\ UNCHANGED <<store, cc>>
          ELSE /\ claims' = claims \ found
               /\ Respond("deleteClaim", 200, "unchanged", {})
               /\ UNCHANGED <<users, lists, items, nextId, cc>>

(***************************************************************************)
(* DELETE /api/items/:id                                                   *)
(***************************************************************************)
DeleteItem(cookie, id) ==
  IF ~requireAuth(cookie)
    THEN /\ Respond("deleteItem", 401, "unchanged", {})
         /\ UNCHANGED <<store, cc>>
    ELSE LET found == ItemsById(ObjectId(id)) IN
      IF found = {}
        THEN /\ Respond("deleteItem", 404, "unchanged", {})
             /\ UNCHANGED <<store, cc>>
        ELSE IF ListsByIdAndOwner(ObjectId((CHOOSE i \in found : TRUE).listId),
                                  cookie.userId) = {}
          THEN /\ Respond("deleteItem", 403, "unchanged", {})
               /\ UNCHANGED <<store, cc>>
          ELSE /\ claims' = claims \ ClaimsByItemId(id)
               /\ items' = items \ found
               /\ Respond("deleteItem", 200, "unchanged", {})
               /\ UNCHANGED <<users, lists, nextId, cc>>

\* Legacy handler: the ownership lookup uses {_id: {$toString: item.listId}}.
DeleteItemServerless(cookie, id) ==
  /\ IF ~requireAuth(cookie)
       THEN Respond("deleteItem", 401, "unchanged", {})
       ELSE IF ItemsById(ObjectId(id)) = {}
         THEN Respond("deleteItem", 404, "unchanged", {})
         ELSE Respond("deleteItem", 500, "unchanged", {})
  /\ UNCHANGED <<store, cc>>

(***************************************************************************)
(* DELETE /api/lists/:id: claims of the list's items, then its items, then *)
(* the list.                                                               *)
(***************************************************************************)
\* Mutation of DeleteList: the claims of the list's items are left behind.
DeleteListKeepsClaims(cookie, id) ==
  IF ~requireAuth(cookie)
    THEN /\ Respond("deleteList", 401, "unchanged", {})
         /\ UNCHANGED <<store, cc>>
    ELSE IF ListsByIdAndOwner(ObjectId(id), cookie.userId) = {}
      THEN /\ Respond("deleteList", 404, "unchanged", {})
           /\ UNCHANGED <<store, cc>>
      ELSE /\ items' = items \ ItemsByListId(id)
           /\ lists' = lists \ ListsById(ObjectId(id))
           /\ Respond("deleteList", 200, "unchanged", {})
           /\ UNCHANGED <<users, claims, nextId, cc>>

DeleteList(cookie, id) ==
  IF ~requireAuth(cookie)
    THEN /\ Respond("deleteList", 401, "unchanged", {})
         /\ UNCHANGED <<store, cc>>
    ELSE IF ListsByIdAndOwner(ObjectId(id), cookie.userId) = {}
      THEN /\ Respond("deleteList", 404, "unchanged", {})
           /\ UNCHANGED <<store, cc>>
      ELSE LET itemIds == {IdString(i._id) : i \in ItemsByListId(id)} IN
           /\ claims' = IF itemIds # {} THEN claims \ ClaimsByItemIdIn(itemIds) ELSE claims
           /\ items' = items \ ItemsByListId(id)
           /\ lists' = lists \ ListsById(ObjectId(id))
           /\ Respond("deleteList", 200, "unchanged", {})
           /\ UNCHANGED <<users, nextId, cc>>

(***************************************************************************)
(* DELETE /api/users/delete: body {password, confirmation}.                *)
(***************************************************************************)
deleteAccountSchema(body) ==
  /\ Len(body.password) >= MinPasswordLength
  /\ body.confirmation = "DELETE"

\* Mutations of DeleteUser: one deletes every list instead of the caller's,
\* one skips the password comparison.
DeleteUserAllLists(cookie, body) ==
  IF ~requireAuth(cookie)
    THEN /\ Respond("deleteUser", 401, "unchanged", {})
         /\ UNCHANGED <<store, cc>>
    ELSE IF ~deleteAccountSchema(body)
      THEN /\ Respond("deleteUser", 400, "unchanged", {})
           /\ UNCHANGED <<store, cc>>
      ELSE LET found == UsersById(ObjectId(cookie.userId)) IN
        IF found = {}
          THEN /\ Respond("deleteUser", 404, "unchanged", {})
               /\ UNCHANGED <<store, cc>>
          ELSE IF ~BcryptCompare(body.password, (CHOOSE u \in found : TRUE).passwordHash)
            THEN /\ Respond("deleteUser", 401, "unchanged", {})
                 /\ UNCHANGED <<store, cc>>
            ELSE LET listIds == {IdString(l._id) : l \in lists}
                     itemIds == {IdString(i._id) : i \in ItemsByListIdIn(listIds)} IN
                 /\ claims' = IF itemIds # {} THEN claims \ ClaimsByItemIdIn(itemIds)
                                               ELSE claims
                 /\ items' = IF listIds # {} THEN items \ ItemsByListIdIn(listIds)
                                             ELSE items
                 /\ lists' = {}
                 /\ users' = users \ found
                 /\ Respond("deleteUser", 200, "cleared", {})
                 /\ UNCHANGED <<nextId, cc>>

DeleteUserNoPassword(cookie, body) ==
  IF ~requireAuth(cookie)
    THEN /\ Respond("deleteUser", 401, "unchanged", {})
         /\ UNCHANGED <<store, cc>>
    ELSE IF ~deleteAccountSchema(body)
      THEN /\ Respond("deleteUser", 400, "unchanged", {})
           /\ UNCHANGED <<store, cc>>
      ELSE LET found == UsersById(ObjectId(cookie.userId)) IN
        IF found = {}
          THEN /\ Respond("deleteUser", 404, "unchanged", {})
               /\ UNCHANGED <<store, cc>>
          ELSE LET listIds == {IdString(l._id) : l \in ListsByOwner(cookie.userId)}
                   itemIds == {IdString(i._id) : i \in ItemsByListIdIn(listIds)} IN
               /\ claims' = IF itemIds # {} THEN claims \ ClaimsByItemIdIn(itemIds)
                                             ELSE claims
               /\ items' = IF listIds # {} THEN items \ ItemsByListIdIn(listIds)
                                           ELSE items
               /\ lists' = lists \ ListsByOwner(cookie.userId)
               /\ users' = users \ found
               /\ Respond("deleteUser", 200, "cleared", {})
               /\ UNCHANGED <<nextId, cc>>

DeleteUser(cookie, body) ==
  IF ~requireAuth(cookie)
    THEN /\ Respond("deleteUser", 401, "unchanged", {})
         /\ UNCHANGED <<store, cc>>
    ELSE IF ~deleteAccountSchema(body)
      THEN /\ Respond("deleteUser", 400, "unchanged", {})
           /\ UNCHANGED <<store, cc>>
      ELSE LET found == UsersById(ObjectId(cookie.userId)) IN
        IF found = {}
          THEN /\ Respond("deleteUser", 404, "unchanged", {})
               /\ UNCHANGED <<store, cc>>
          ELSE IF ~BcryptCompare(body.password, (CHOOSE u \in found : TRUE).passwordHash)
            THEN /\ Respond("deleteUser", 401, "unchanged", {})
                 /\ UNCHANGED <<store, cc>>
            ELSE LET listIds == {IdString(l._id) : l \in ListsByOwner(cookie.userId)}
                     itemIds == {IdString(i._id) : i \in ItemsByListIdIn(listIds)} IN
                 /\ claims' = IF itemIds # {} THEN claims \ ClaimsByItemIdIn(itemIds)
                                               ELSE claims
                 /\ items' = IF listIds # {} THEN items \ ItemsByListIdIn(listIds)
                                             ELSE items
                 /\ lists' = lists \ ListsByOwner(cookie.userId)
                 /\ users' = users \ found
                 /\ Respond("deleteUser", 200, "cleared", {})
                 /\ UNCHANGED <<nextId, cc>>

(***************************************************************************)
(* Read paths.  A read changes nothing: its response is a function of the  *)
(* store and the request.  The body is the document the handler           *)
(* serialises.                                                             *)
(***************************************************************************)
\* Mutation of ExportClaim: the whole Claim document is serialised.
ExportClaimDocument(c) ==
  [id |-> IdString(c._id), claimerName |-> c.claimerName,
   secretToken |-> c.secretToken]

ExportClaim(c) == [id |-> IdString(c._id), claimerName |-> c.claimerName]

ExportItem(i, claimDocs) ==
  [id |-> IdString(i._id),
   claims |-> {ExportClaim(c) : c \in {d \in claimDocs : d.itemId = IdString(i._id)}}]

\* Mutation of ExportList: the items are not filtered by the list's id.
ExportListAllItems(l, itemDocs, claimDocs) ==
  [id |-> IdString(l._id), isPublic |-> l.isPublic, shareId |-> l.shareId,
   items |-> {ExportItem(i, claimDocs) : i \in itemDocs}]

ExportList(l, itemDocs, claimDocs) ==
  [id |-> IdString(l._id), isPublic |-> l.isPublic, shareId |-> l.shareId,
   items |-> {ExportItem(i, claimDocs) :
                i \in {d \in itemDocs : d.listId = IdString(l._id)}}]

\* GET /api/users/export (both handler sets run the same steps).
Export(cookie) ==
  IF ~requireAuth(cookie)
    THEN Response("read", 401, "unchanged", {})
    ELSE IF UsersById(ObjectId(cookie.userId)) = {}
      THEN Response("read", 404, "unchanged", {})
      ELSE LET listDocs == ListsByOwner(cookie.userId)
               listIds == {IdString(l._id) : l \in listDocs}
               itemDocs == ItemsByListIdIn(listIds)
               itemIds == {IdString(i._id) : i \in itemDocs}
               claimDocs == ClaimsByItemIdIn(itemIds) IN
           Response("read", 200, "unchanged",
                    [user |-> [id |-> cookie.userId],
                     lists |-> {ExportList(l, itemDocs, claimDocs) : l \in listDocs},
                     summary |-> [totalLists |-> Cardinality(listDocs),
                                  totalItems |-> Cardinality(itemDocs),
                                  totalClaims |-> Cardinality(claimDocs)]])

ShareItem(i, claimDocs) ==
  [id |-> IdString(i._id),
   isClaimed |-> \E c \in claimDocs : c.itemId = IdString(i._id)]

\* GET /api/lists/share/:shareId (Express).
ShareView(shareId) ==
  LET found == ListsByShareId(shareId) IN
  IF found = {}
    THEN Response("read", 404, "unchanged", {})
    ELSE LET list == CHOOSE l \in found : TRUE IN
      IF ~list.isPublic
        THEN Response("read", 403, "unchanged", {})
        ELSE LET itemDocs == ItemsByListId(IdString(list._id))
                 itemIds == {IdString(i._id) : i \in itemDocs}
                 claimDocs == ClaimsByItemIdIn(itemIds) IN
             Response("read", 200, "unchanged",
                      [items |-> {ShareItem(i, claimDocs) : i \in itemDocs}])

\* Legacy handler: the owner lookup uses {_id: {$toString: list.ownerId}}.
ShareViewServerless(shareId) ==
  LET found == ListsByShareId(shareId) IN
  IF found = {}
    THEN Response("read", 404, "unchanged", {})
    ELSE IF ~(CHOOSE l \in found : TRUE).isPublic
      THEN Response("read", 403, "unchanged", {})
      ELSE Response("read", 500, "unchanged", {})

ListView(l) ==
  [id |-> IdString(l._id), ownerId |-> l.ownerId, isPublic |-> l.isPublic,
   shareId |-> l.shareId]

ItemView(i) == [id |-> IdString(i._id), listId |-> i.listId]

\* GET /api/lists/:id (both handler sets run the same steps).
GetList(cookie, id) ==
  IF ~requireAuth(cookie)
    THEN Response("read", 401, "unchanged", {})
    ELSE LET found == ListsByIdAndOwner(ObjectId(id), cookie.userId) IN
      IF found = {}
        THEN Response("read", 404, "unchanged", {})
        ELSE Response("read", 200, "unchanged",
                      [list |-> ListView(CHOOSE l \in found : TRUE),
                       items |-> {ItemView(i) : i \in ItemsByListId(id)}])

\* GET /api/items?listId=X (Express).
GetItems(cookie, listId) ==
  IF ~requireAuth(cookie)
    THEN Response("read", 401, "unchanged", {})
    ELSE IF ListsByIdAndOwner(ObjectId(listId), cookie.userId) = {}
      THEN Response("read", 404, "unchanged", {})
      ELSE Response("read", 200, "unchanged",
                    [items |-> {ItemView(i) : i \in ItemsByListId(listId)}])

(***************************************************************************)
(* Requests: each handler with its inputs.                                 *)
(***************************************************************************)
HexListIds == {IdString(n) : n \in ListIds}
HexItemIds == {IdString(n) : n \in ItemIds}
HexClaimIds == {IdString(n) : n \in ClaimIds}
DeleteBodies ==
  [password : Passwords \cup {ShortPassword}, confirmation : {"DELETE", "delete"}]

ReqCreateList ==
  \E cookie \in Cookies, isPublic \in BOOLEAN : CreateList(cookie, isPublic)
ReqUpdateList ==
  \E cookie \in Cookies, id \in HexListIds,
     setPublic \in {"keep", "public", "private"} :
    UpdateList(cookie, id, setPublic)
ReqCreateItem == \E cookie \in Cookies, listId \in HexListIds : CreateItem(cookie, listId)
ReqCreateItemServerless ==
  \E cookie \in Cookies, listId \in HexListIds : CreateItemServerless(cookie, listId)
ReqCreateClaim ==
  \E itemId \in HexItemIds, name \in ClaimerNames : CreateClaim(itemId, name)
ReqCreateClaimServerless ==
  \E itemId \in HexItemIds, name \in ClaimerNames : CreateClaimServerless(itemId, name)
ReqDeleteClaim ==
  \E cookie \in Cookies, id \in HexClaimIds, token \in SuppliedTokens :
    DeleteClaim(cookie, id, token)
ReqDeleteItem == \E cookie \in Cookies, id \in HexItemIds : DeleteItem(cookie, id)
ReqDeleteItemServerless ==
  \E cookie \in Cookies, id \in HexItemIds : DeleteItemServerless(cookie, id)
ReqDeleteList ==
  \E cookie \in Cookies, id \in HexListIds : DeleteList(cookie, id)
ReqDeleteUser ==
  \E cookie \in Cookies, body \in DeleteBodies :
    DeleteUser(cookie, body)

(***************************************************************************)
(* Spec: requests are processed one at a time; a handler runs to its       *)
(* response before the next request starts.                                *)
(***************************************************************************)
AllIdle == InFlight = {}

SeqCreateList == AllIdle /\ ReqCreateList
SeqUpdateList == AllIdle /\ ReqUpdateList
SeqCreateItem == AllIdle /\ ReqCreateItem
SeqCreateItemServerless == AllIdle /\ ReqCreateItemServerless
SeqCreateClaim == AllIdle /\ ReqCreateClaim
SeqCreateClaimServerless == AllIdle /\ ReqCreateClaimServerless
SeqDeleteClaim == AllIdle /\ ReqDeleteClaim
SeqDeleteItem == AllIdle /\ ReqDeleteItem
SeqDeleteItemServerless == AllIdle /\ ReqDeleteItemServerless
SeqDeleteList == AllIdle /\ ReqDeleteList
SeqDeleteUser == AllIdle /\ ReqDeleteUser

Next ==
  \/ SeqCreateList
  \/ SeqUpdateList
  \/ SeqCreateItem
  \/ SeqCreateItemServerless
  \/ SeqCreateClaim
  \/ SeqCreateClaimServerless
  \/ SeqDeleteClaim
  \/ SeqDeleteItem
  \/ SeqDeleteItemServerless
  \/ SeqDeleteList
  \/ SeqDeleteUser

Spec == Init /\ [][Next]_vars

(***************************************************************************)
(* SpecRace: create-claim requests run concurrently.  Each request         *)
(* suspends at every store call, so the steps of two requests interleave   *)
(* one store call at a time; the owner may change the public flag          *)
(* meanwhile.  The store starts as the sequential program leaves it after  *)
(* user 1 created a public list with two items (RaceInitReached).          *)
(***************************************************************************)
RaceStore ==
  /\ users = {[_id |-> u, passwordHash |-> Hash(PasswordOf(u))] : u \in UserIds}
  /\ lists = {[_id |-> 1, ownerId |-> IdString(1), isPublic |-> TRUE, shareId |-> 1]}
  /\ items = {[_id |-> 1, listId |-> IdString(1)], [_id |-> 2, listId |-> IdString(1)]}
  /\ claims = {}

RaceInit ==
  /\ RaceStore
  /\ nextId = [lists |-> 2, items |-> 3, claims |-> 1]
  /\ cc = [p \in Procs |-> IdleProc]
  /\ last = Response("createItem", 201, "unchanged", {})
  /\ AuxInit

RaceInitReached == RaceStore /\ last = Response("createItem", 201, "unchanged", {})

RaceFindItem ==
  \E p \in Procs, itemId \in HexItemIds, name \in ClaimerNames :
    CC_FindItem(p, itemId, name)
RaceFindList == \E p \in Procs : CC_FindList(p)
RaceFindClaim == \E p \in Procs : CC_FindClaim(p)
RaceDrawToken == \E p \in Procs, draw \in SecretTokens : CC_DrawToken(p, draw)
RaceInsert == \E p \in Procs : CC_Insert(p)
RaceUpdateList == ReqUpdateList

RaceNext ==
  \/ RaceFindItem
  \/ RaceFindList
  \/ RaceFindClaim
  \/ RaceDrawToken
  \/ RaceInsert
  \/ RaceUpdateList

SpecRace == RaceInit /\ [][RaceNext]_vars

(***************************************************************************)
(* The cascades one store call at a time.  rq is the request between two   *)
(* calls.  Any call can throw: the catch block answers 500 'Internal       *)
(* server error' and the handler ends; nothing is rolled back.             *)
(***************************************************************************)
InternalServerError == {[message |-> "Internal server error"]}

NoRequest == rq.pc = "idle" /\ AllIdle

RqAt(op, pc) == rq.op = op /\ rq.pc = pc
RqGoto(pc) == rq' = [rq EXCEPT !.pc = pc]
RqRespond(status, cookie, body) ==
  /\ last' = Response(rq.op, status, cookie, body)
  /\ rq' = IdleRq
RqRefuse(op, status) ==
  /\ last' = Response(op, status, "unchanged", {})
  /\ rq' = rq
RqFrame == UNCHANGED <<cc, rateLimitStore, now, admittedAt>>

\* DELETE /api/lists/:id: listsCollection.findOne({_id, ownerId})
DL_FindList(cookie, id, throws) ==
  /\ NoRequest
  /\ IF ~requireAuth(cookie)
       THEN RqRefuse("deleteList", 401)
       ELSE IF throws
         THEN /\ last' = Response("deleteList", 500, "unchanged", InternalServerError)
              /\ rq' = rq
         ELSE IF ListsByIdAndOwner(ObjectId(id), cookie.userId) = {}
           THEN RqRefuse("deleteList", 404)
           ELSE /\ rq' = [IdleRq EXCEPT !.op = "deleteList", !.pc = "findItems",
                                        !.userId = cookie.userId, !.id = id]
                /\ UNCHANGED last
  /\ UNCHANGED store /\ RqFrame

\* itemsCollection.find({listId: id}); itemIds = items.map(_id.toString())
DL_FindItems ==
  /\ RqAt("deleteList", "findItems")
  /\ rq' = [rq EXCEPT !.pc = "deleteClaims",
                      !.itemIds = {IdString(i._id) : i \in ItemsByListId(rq.id)}]
  /\ UNCHANGED <<store, last>> /\ RqFrame

\* if (itemIds.length > 0) claimsCollection.deleteMany({itemId: {$in: itemIds}})
DL_DeleteClaims ==
  /\ RqAt("deleteList", "deleteClaims")
  /\ claims' = IF rq.itemIds # {} THEN claims \ ClaimsByItemIdIn(rq.itemIds) ELSE claims
  /\ RqGoto("deleteItems")
  /\ UNCHANGED <<users, lists, items, nextId, last>> /\ RqFrame

\* Mutation of DL_DeleteItems: the list is deleted before its items.
DL_DeleteListFirst ==
  /\ RqAt("deleteList", "deleteItems")
  /\ lists' = lists \ ListsById(ObjectId(rq.id))
  /\ RqGoto("deleteList")
  /\ UNCHANGED <<users, items, claims, nextId, last>> /\ RqFrame

\* itemsCollection.deleteMany({listId: id})
DL_DeleteItems ==
  /\ RqAt("deleteList", "deleteItems")
  /\ items' = items \ ItemsByListId(rq.id)
  /\ RqGoto("deleteList")
  /\ UNCHANGED <<users, lists, claims, nextId, last>> /\ RqFrame

\* listsCollection.deleteOne({_id}); 200
DL_DeleteList ==
  /\ RqAt("deleteList", "deleteList")
  /\ lists' = lists \ ListsById(ObjectId(rq.id))
  /\ RqRespond(200, "unchanged", {})
  /\ UNCHANGED <<users, items, claims, nextId>> /\ RqFrame

\* DELETE /api/users/delete: validation, usersCollection.findOne({_id}),
\* bcrypt.compare
DU_FindUser(cookie, body, throws) ==
  /\ NoRequest
  /\ IF ~requireAuth(cookie)
       THEN RqRefuse("deleteUser", 401)
       ELSE IF ~deleteAccountSchema(body)
         THEN RqRefuse("deleteUser", 400)
         ELSE IF throws
           THEN /\ last' = Response("deleteUser", 500, "unchanged", InternalServerError)
                /\ rq' = rq
           ELSE LET found == UsersById(ObjectId(cookie.userId)) IN
             IF found = {}
               THEN RqRefuse("deleteUser", 404)
               ELSE IF ~BcryptCompare(body.password,
                                      (CHOOSE u \in found : TRUE).passwordHash)
                 THEN RqRefuse("deleteUser", 401)
                 ELSE /\ rq' = [IdleRq EXCEPT !.op = "deleteUser", !.pc = "findLists",
                                              !.userId = cookie.userId]
                      /\ UNCHANGED last
  /\ UNCHANGED store /\ RqFrame

\* listsCollection.find({ownerId}); listIds = lists.map(_id.toString())
DU_FindLists ==
  /\ RqAt("deleteUser", "findLists")
  /\ rq' = [rq EXCEPT !.pc = "findItems",
                      !.listIds = {IdString(l._id) : l \in ListsByOwner(rq.userId)}]
  /\ UNCHANGED <<store, last>> /\ RqFrame

\* itemsCollection.find({listId: {$in: listIds}}); itemIds
DU_FindItems ==
  /\ RqAt("deleteUser", "findItems")
  /\ rq' = [rq EXCEPT !.pc = "deleteClaims",
                      !.itemIds = {IdString(i._id) : i \in ItemsByListIdIn(rq.listIds)}]
  /\ UNCHANGED <<store, last>> /\ RqFrame

\* if (itemIds.length > 0) claimsCollection.deleteMany({itemId: {$in: itemIds}})
DU_DeleteClaims ==
  /\ RqAt("deleteUser", "deleteClaims")
  /\ claims' = IF rq.itemIds # {} THEN claims \ ClaimsByItemIdIn(rq.itemIds) ELSE claims
  /\ RqGoto("deleteItems")
  /\ UNCHANGED <<users, lists, items, nextId, last>> /\ RqFrame

\* if (listIds.length > 0) itemsCollection.deleteMany({listId: {$in: listIds}})
DU_DeleteItems ==
  /\ RqAt("deleteUser", "deleteItems")
  /\ items' = IF rq.listIds # {} THEN items \ ItemsByListIdIn(rq.listIds) ELSE items
  /\ RqGoto("deleteLists")
  /\ UNCHANGED <<users, lists, claims, nextId, last>> /\ RqFrame

\* Mutation of DU_DeleteLists: the user is deleted before its lists.
DU_DeleteUserFirst ==
  /\ RqAt("deleteUser", "deleteLists")
  /\ users' = users \ UsersById(ObjectId(rq.userId))
  /\ RqGoto("deleteUser")
  /\ UNCHANGED <<lists, items, claims, nextId, last>> /\ RqFrame

\* listsCollection.deleteMany({ownerId})
DU_DeleteLists ==
  /\ RqAt("deleteUser", "deleteLists")
  /\ lists' = lists \ ListsByOwner(rq.userId)
  /\ RqGoto("deleteUser")
  /\ UNCHANGED <<users, items, claims, nextId, last>> /\ RqFrame

\* usersCollection.deleteOne({_id}); the cookie is cleared; 200
DU_DeleteUser ==
  /\ RqAt("deleteUser", "deleteUser")
  /\ users' = users \ UsersById(ObjectId(rq.userId))
  /\ RqRespond(200, "cleared", {})
  /\ UNCHANGED <<lists, items, claims, nextId>> /\ RqFrame

\* Mutation of RqThrow: the catch block compensates by removing what the
\* cascade had not deleted yet.
RqThrowCompensates ==
  /\ rq.pc # "idle"
  /\ RqRespond(500, "unchanged", InternalServerError)
  /\ claims' = claims \ ClaimsByItemIdIn(rq.itemIds)
  /\ items' = items \ (ItemsByListId(rq.id) \cup ItemsByListIdIn(rq.listIds))
  /\ UNCHANGED <<users, lists, nextId>> /\ RqFrame

\* A store call of the request in progress throws: catch (error) answers 500
\* 'Internal server error'.
RqThrow ==
  /\ rq.pc # "idle"
  /\ RqRespond(500, "unchanged", InternalServerError)
  /\ UNCHANGED store /\ RqFrame

\* A store call of a create-claim in progress throws.
CC_Throw(p) ==
  /\ cc[p].pc # "idle"
  /\ Finish(p, 500, InternalServerError)
  /\ UNCHANGED store

(***************************************************************************)
(* SpecCascade: one request at a time, served one store call at a time,    *)
(* any call of which may throw.  The store starts as the sequential        *)
(* program leaves it: two lists, the second owned by either user, two      *)
(* items placed in either list, and no claim or the two claims a race      *)
(* leaves on item 1.                                                       *)
(***************************************************************************)
CascadeStores ==
  {[lists |-> {[_id |-> 1, ownerId |-> IdString(1), isPublic |-> TRUE, shareId |-> 1],
               [_id |-> 2, ownerId |-> IdString(o), isPublic |-> TRUE, shareId |-> 2]},
    items |-> {[_id |-> 1, listId |-> IdString(l1)], [_id |-> 2, listId |-> IdString(l2)]},
    claims |-> IF raced
                 THEN {[_id |-> 1, itemId |-> IdString(1), claimerName |-> "Al",
                        secretToken |-> 1],
                       [_id |-> 2, itemId |-> IdString(1), claimerName |-> "Al",
                        secretToken |-> 2]}
                 ELSE {}] :
     o \in UserIds, l1 \in 1..2, l2 \in 1..2, raced \in BOOLEAN}

CascadeInit ==
  /\ users = {[_id |-> u, passwordHash |-> Hash(PasswordOf(u))] : u \in UserIds}
  /\ \E st \in CascadeStores :
       /\ lists = st.lists
       /\ items = st.items
       /\ claims = st.claims
       /\ nextId = [lists |-> 3, items |-> 3, claims |-> Cardinality(st.claims) + 1]
  /\ cc = [p \in Procs |-> IdleProc]
  /\ last = Response("none", 0, "unchanged", {})
  /\ AuxInit

CascFindItem ==
  NoRequest /\ \E itemId \in HexItemIds, name \in ClaimerNames : CC_FindItem(1, itemId, name)
CascFindList == CC_FindList(1)
CascFindClaim == CC_FindClaim(1)
CascDrawToken == \E draw \in SecretTokens : CC_DrawToken(1, draw)
CascInsert == CC_Insert(1)
CascClaimThrows == CC_Throw(1)
CascDeleteList ==
  \E cookie \in Cookies, id \in HexListIds, throws \in BOOLEAN :
    DL_FindList(cookie, id, throws)
CascDeleteUser ==
  \E cookie \in Cookies, body \in DeleteBodies, throws \in BOOLEAN :
    DU_FindUser(cookie, body, throws)

CascadeNext ==
  \/ CascFindItem
  \/ CascFindList
  \/ CascFindClaim
  \/ CascDrawToken
  \/ CascInsert
  \/ CascClaimThrows
  \/ CascDeleteList
  \/ DL_FindItems
  \/ DL_DeleteClaims
  \/ DL_DeleteItems
  \/ DL_DeleteList
  \/ CascDeleteUser
  \/ DU_FindLists
  \/ DU_FindItems
  \/ DU_DeleteClaims
  \/ DU_DeleteItems
  \/ DU_DeleteLists
  \/ DU_DeleteUser
  \/ RqThrow

SpecCascade == CascadeInit /\ [][CascadeNext]_vars

(***************************************************************************)
(* POST /api/items (Express) one store call at a time, and SpecItemRace:   *)
(* a delete-list or delete-user is served between the two calls of a       *)
(* create-item.  The store starts as the sequential program leaves it: two *)
(* lists, the second owned by either user, and no item or one item.        *)
(***************************************************************************)
\* listsCollection.findOne({_id: new ObjectId(listId), ownerId})
CI_FindList(cookie, listId) ==
  /\ NoRequest
  /\ nextId.items <= MaxItems
  /\ IF ~requireAuth(cookie)
       THEN RqRefuse("createItem", 401)
       ELSE IF ListsByIdAndOwner(ObjectId(listId), cookie.userId) = {}
         THEN RqRefuse("createItem", 404)
         ELSE /\ rq' = [IdleRq EXCEPT !.op = "createItem", !.pc = "insert",
                                      !.userId = cookie.userId, !.id = listId]
              /\ UNCHANGED last
  /\ UNCHANGED store /\ RqFrame

\* itemsCollection.insertOne(newItem); 201
CI_Insert ==
  /\ RqAt("createItem", "insert")
  /\ items' = items \cup {[_id |-> nextId.items, listId |-> rq.id]}
  /\ nextId' = [nextId EXCEPT !.items = @ + 1]
  /\ RqRespond(201, "unchanged", {})
  /\ UNCHANGED <<users, lists, claims>> /\ RqFrame

ItemRaceInit ==
  /\ users = {[_id |-> u, passwordHash |-> Hash(PasswordOf(u))] : u \in UserIds}
  /\ \E o \in UserIds :
       lists = {[_id |-> 1, ownerId |-> IdString(1), isPublic |-> TRUE, shareId |-> 1],
                [_id |-> 2, ownerId |-> IdString(o), isPublic |-> TRUE, shareId |-> 2]}
  /\ \E n \in 0..1 :
       /\ items = {[_id |-> i, listId |-> IdString(1)] : i \in 1..n}
       /\ nextId = [lists |-> 3, items |-> n + 1, claims |-> 1]
  /\ claims = {}
  /\ cc = [p \in Procs |-> IdleProc]
  /\ last = Response("none", 0, "unchanged", {})
  /\ AuxInit

ItemRaceFindList == \E cookie \in Cookies, listId \in HexListIds : CI_FindList(cookie, listId)
ItemRaceDeleteList == ReqDeleteList
ItemRaceDeleteUser == ReqDeleteUser

ItemRaceNext ==
  \/ ItemRaceFindList
  \/ CI_Insert
  \/ ItemRaceDeleteList
  \/ ItemRaceDeleteUser

SpecItemRace == ItemRaceInit /\ [][ItemRaceNext]_vars

(***************************************************************************)
(* Properties.  A property of one operation says that no step of its       *)
(* handler, from any reachable state and for any request, ends otherwise   *)
(* than stated: ~ENABLED (Handler(request) /\ ~Outcome), where Outcome     *)
(* relates the state before the step to the state after it.                *)
(***************************************************************************)
\* A create-claim request for itemId, served by either handler set.
CreateClaimRequest(itemId) ==
  \/ \E name \in ClaimerNames : CreateClaim(itemId, name)
  \/ \E name \in ClaimerNames : CreateClaimServerless(itemId, name)

\* At most one Claim per Item.
AtMostOneClaimPerItem ==
  \A itemId \in HexItemIds : Cardinality(ClaimsByItemId(itemId)) <= 1

\* C1: with requests processed one at a time, after every operation each
\* Item is referenced by at most one Claim, and a create-claim (served by
\* either handler set) for an Item of a public List that already has a
\* Claim answers 409 and inserts nothing.
C1_AtMostOneClaimSequential ==
  /\ AtMostOneClaimPerItem
  /\ \A itemId \in HexItemIds :
       (ItemFound(itemId) /\ ListIsPublic(ListIdOf(itemId)) /\ AlreadyClaimed(itemId))
         => ~ENABLED (/\ CreateClaimRequest(itemId)
                      /\ ~(last'.status = 409 /\ claims' = claims))

\* C2: two create-claim requests for one unclaimed Item of a public List
\* can both pass the existence check before either inserts.  The insert of
\* a request that has passed the check is not rejected because a Claim on
\* the same Item is stored meanwhile (the index on claims.itemId is not
\* unique): it answers 201 and adds a second Claim referencing the Item.
C2_ConcurrentClaimsBothSucceed ==
  \A p \in Procs :
    (/\ cc[p].pc = "insert"
     /\ AlreadyClaimed(cc[p].itemId)
     /\ ~TokenTaken(cc[p].secretToken))
      => /\ ENABLED CC_Insert(p)
         /\ ~ENABLED (/\ CC_Insert(p)
                      /\ ~(/\ last'.status = 201
                           /\ Cardinality({c \in claims' : c.itemId = cc[p].itemId})
                                = Cardinality(ClaimsByItemId(cc[p].itemId)) + 1))

\* Two Claims reference the same Item and the last request answered 201.
C2_TwoClaimsOneItem ==
  /\ \E c1 \in claims, c2 \in claims : c1 # c2 /\ c1.itemId = c2.itemId
  /\ last.op = "createClaim" /\ last.status = 201

\* The status the precondition order item-exists, list-public,
\* not-already-claimed prescribes.  With every precondition met the answer
\* is 201; the token loop can fail (500) only against a stored token.
PreconditionStatus(itemId) ==
  IF ~ItemFound(itemId) THEN {404}
  ELSE IF ~ListIsPublic(ListIdOf(itemId)) THEN {403}
  ELSE IF AlreadyClaimed(itemId) THEN {409}
  ELSE IF claims = {} THEN {201}
  ELSE {201, 500}

\* C3: create-claim (served by either handler set) answers 404 if the Item
\* is missing, else 403 if the owning List is missing or not public, else
\* 409 if a Claim already references the Item, else 201; every outcome
\* other than 201 leaves the Claims collection unchanged.
C3_PreconditionOrder ==
  \A itemId \in HexItemIds :
    ~ENABLED (/\ CreateClaimRequest(itemId)
              /\ ~(/\ last'.status \in PreconditionStatus(itemId)
                   /\ last'.status # 201 => claims' = claims))

\* The Express handler alone keeps the order of C3 and the 409 of C1.
ExpressPreconditionOrder ==
  \A itemId \in HexItemIds, name \in ClaimerNames :
    ~ENABLED (/\ CreateClaim(itemId, name)
              /\ ~(/\ last'.status \in PreconditionStatus(itemId)
                   /\ last'.status # 201 => claims' = claims
                   /\ last'.status = 201 => claims' # claims))

\* A retraction request whose token passes deleteClaimSchema.
WellFormed(token) == TokenLength(token) >= MinTokenLength
StoredToken(id) == (CHOOSE c \in ClaimsById(ObjectId(id)) : TRUE).secretToken
ClaimExists(id) == ClaimsById(ObjectId(id)) # {}

\* C4: a retract-claim for an existing Claim with a token that differs from
\* the stored secretToken answers 403 and leaves every Claim in the store
\* unchanged.
C4_WrongTokenRejected ==
  \A cookie \in Cookies, id \in HexClaimIds, token \in SuppliedTokens :
    (WellFormed(token) /\ ClaimExists(id) /\ StoredToken(id) # token)
      => ~ENABLED (/\ DeleteClaim(cookie, id, token)
                   /\ ~(last'.status = 403 /\ claims' = claims))

\* A retraction was refused with 403 and the Claims are still stored.
C4_WrongTokenWitness ==
  last.op = "deleteClaim" /\ last.status = 403 /\ claims # {}

\* Retraction and re-claim through the Express create-claim handler: a
\* retract-claim with the correct token answers 200 and removes exactly
\* that Claim, after which no Claim references its Item; a retract-claim
\* for a claim id that is gone answers 404 whatever the token, and the id
\* never comes back, a create-claim storing its Claim under an id not
\* issued before; and a create-claim on an Item of a public List that no
\* Claim references answers 201 (500 only if the token loop fails against a
\* stored token) and stores the one Claim of the Item.
ExpressRetractThenReclaim ==
  /\ \A cookie \in Cookies, id \in HexClaimIds, token \in SuppliedTokens :
       (ClaimExists(id) /\ StoredToken(id) = token)
         => ~ENABLED (/\ DeleteClaim(cookie, id, token)
                      /\ ~(/\ last'.status = 200
                           /\ claims' = claims \ ClaimsById(ObjectId(id))
                           /\ \A c \in ClaimsById(ObjectId(id)) :
                                {d \in claims' : d.itemId = c.itemId} = {}))
  /\ \A cookie \in Cookies, id \in HexClaimIds, token \in SuppliedTokens :
       (WellFormed(token) /\ ~ClaimExists(id))
         => ~ENABLED (/\ DeleteClaim(cookie, id, token)
                      /\ ~(last'.status = 404 /\ claims' = claims))
  /\ \A c \in claims : c._id < nextId.claims
  /\ \A itemId \in HexItemIds, name \in ClaimerNames :
       ~ENABLED (/\ CreateClaim(itemId, name)
                 /\ ~(/\ nextId'.claims >= nextId.claims
                      /\ \A c \in claims' \ claims : c._id = nextId.claims
                                                     /\ nextId'.claims > c._id))
  /\ \A itemId \in HexItemIds, name \in ClaimerNames :
       (ItemFound(itemId) /\ ListIsPublic(ListIdOf(itemId)) /\ ~AlreadyClaimed(itemId))
         => ~ENABLED (/\ CreateClaim(itemId, name)
                      /\ ~(/\ last'.status \in PreconditionStatus(itemId)
                           /\ last'.status = 201
                                => Cardinality({c \in claims' : c.itemId = itemId}) = 1))

\* C5: a retract-claim with the correct token answers 200 and removes
\* exactly that Claim; a later retract-claim for the same claim id answers
\* 404 whatever the token; and the Item is claimable again: once a
\* retraction has answered 200, a following create-claim (served by either
\* handler set) on an Item of a public List that no Claim references
\* answers 201 (500 only if the token loop fails against a stored token).
C5_RetractThenReclaim ==
  /\ \A cookie \in Cookies, id \in HexClaimIds, token \in SuppliedTokens :
       (ClaimExists(id) /\ StoredToken(id) = token)
         => ~ENABLED (/\ DeleteClaim(cookie, id, token)
                      /\ ~(/\ last'.status = 200
                           /\ claims' = claims \ ClaimsById(ObjectId(id))))
  /\ \A cookie \in Cookies, id \in HexClaimIds, token \in SuppliedTokens :
       (WellFormed(token) /\ ~ClaimExists(id))
         => ~ENABLED (/\ DeleteClaim(cookie, id, token)
                      /\ ~(last'.status = 404 /\ claims' = claims))
  /\ \A itemId \in HexItemIds :
       (/\ last.op = "deleteClaim" /\ last.status = 200
        /\ ItemFound(itemId) /\ ListIsPublic(ListIdOf(itemId))
        /\ ~AlreadyClaimed(itemId))
         => ~ENABLED (/\ CreateClaimRequest(itemId)
                      /\ ~(last'.status \in PreconditionStatus(itemId)))

\* The status of a retract-claim as a function of the Claim's existence and
\* of token equality alone.
RetractOutcome(id, token) ==
  IF ~ClaimExists(id) THEN 404
  ELSE IF StoredToken(id) # token THEN 403
  ELSE 200

\* C6: the outcome of retract-claim depends only on whether the Claim exists
\* and whether the supplied token equals the stored one: whatever the
\* session cookie (none, forged, either user's) and whatever the public
\* flag of the owning List, the status is RetractOutcome, the store loses
\* that Claim on 200 and is unchanged otherwise.
C6_TokenIsTheOnlyCredential ==
  \A cookie \in Cookies, id \in HexClaimIds, token \in SuppliedTokens :
    WellFormed(token)
      => /\ ENABLED DeleteClaim(cookie, id, token)
         /\ ~ENABLED (/\ DeleteClaim(cookie, id, token)
                      /\ ~(/\ last'.status = RetractOutcome(id, token)
                           /\ claims' = IF RetractOutcome(id, token) = 200
                                          THEN claims \ ClaimsById(ObjectId(id))
                                          ELSE claims
                           /\ UNCHANGED <<users, lists, items>>))

\* The only List ever created is private, the only Claim ever created is
\* gone and the last response is a retract-claim 200: the Claim was
\* retracted after its List was made private.
C6_RetractedOnPrivateList ==
  /\ last.op = "deleteClaim" /\ last.status = 200
  /\ nextId.lists = 2 /\ \E l \in lists : ~l.isPublic
  /\ nextId.claims = 2 /\ claims = {}

\* A serialised document with a secretToken field.
Exposes(doc) == "secretToken" \in DOMAIN doc

ExportExposes(cookie) ==
  LET r == Export(cookie) IN
  /\ r.status = 200
  /\ \/ Exposes(r.body) \/ Exposes(r.body.user) \/ Exposes(r.body.summary)
     \/ \E l \in r.body.lists :
          \/ Exposes(l)
          \/ \E i \in l.items : Exposes(i) \/ \E c \in i.claims : Exposes(c)

ShareViewExposes(shareId) ==
  LET r == ShareView(shareId) IN
  /\ r.status = 200
  /\ Exposes(r.body) \/ \E i \in r.body.items : Exposes(i)

GetListExposes(cookie, id) ==
  LET r == GetList(cookie, id) IN
  /\ r.status = 200
  /\ Exposes(r.body) \/ Exposes(r.body.list) \/ \E i \in r.body.items : Exposes(i)

GetItemsExposes(cookie, listId) ==
  LET r == GetItems(cookie, listId) IN
  /\ r.status = 200
  /\ Exposes(r.body) \/ \E i \in r.body.items : Exposes(i)

\* C7: a Claim's secretToken is in one response only, the 201 of the
\* create-claim that issued it: a response that carries a token is the 201
\* of a create-claim and the token is the one of the Claim it stored, and in
\* every reachable state no read path (data export, public share view,
\* owner list read, owner item read), for any request, answers with a
\* document that has a secretToken.
C7_TokenOnlyInCreateResponse ==
  /\ \A view \in last.body :
       /\ last.op = "createClaim" /\ last.status = 201
       /\ \E c \in claims : /\ c._id = nextId.claims - 1
                            /\ view = ClaimView(c._id, c)
  /\ \A cookie \in Cookies : ~ExportExposes(cookie)
  /\ \A shareId \in ShareIds :
       ~ShareViewExposes(shareId) /\ ShareViewServerless(shareId).body = {}
  /\ \A cookie \in Cookies, id \in HexListIds :
       ~GetListExposes(cookie, id) /\ ~GetItemsExposes(cookie, id)

\* A Claim was just issued with its token, the owner's export lists it and
\* the public share view shows its Item as claimed.
C7_ClaimVisibleToReads ==
  /\ last.op = "createClaim" /\ last.status = 201
  /\ \E view \in last.body : Exposes(view)
  /\ \E cookie \in Cookies :
       Export(cookie).status = 200 /\ Export(cookie).body.summary.totalClaims > 0
  /\ \E shareId \in ShareIds :
       /\ ShareView(shareId).status = 200
       /\ \E i \in ShareView(shareId).body.items : i.isClaimed

\* What a delete-list of list id leaves in the store.
ItemIdsOfList(id) == {IdString(i._id) : i \in ItemsByListId(id)}

\* C8: after a delete-list by the owner that answered 200 the List is gone,
\* no Item has its listId and no Claim references an Item that belonged to
\* it, however many Items and Claims it had; the Lists, Items and Claims of
\* the other Lists, and the Users, are unchanged.
C8_DeleteListCascade ==
  \A cookie \in Cookies, id \in HexListIds :
    ~ENABLED (/\ DeleteList(cookie, id)
              /\ last'.status = 200
              /\ ~(/\ {l \in lists' : l._id = ObjectId(id)} = {}
                   /\ {i \in items' : i.listId = id} = {}
                   /\ {c \in claims' : c.itemId \in ItemIdsOfList(id)} = {}
                   /\ lists' = {l \in lists : l._id # ObjectId(id)}
                   /\ items' = {i \in items : i.listId # id}
                   /\ claims' = {c \in claims : c.itemId \notin ItemIdsOfList(id)}
                   /\ users' = users))

\* Two Lists, two Items and two Claims were ever created, a delete-list
\* just answered 200, and one List is left with its Item and that Item's
\* Claim.
C8_OtherListSurvives ==
  /\ last.op = "deleteList" /\ last.status = 200
  /\ nextId = [lists |-> 3, items |-> 3, claims |-> 3]
  /\ \E l \in lists, i \in items, c \in claims :
       /\ lists = {l} /\ items = {i} /\ claims = {c}
       /\ i.listId = IdString(l._id) /\ c.itemId = IdString(i._id)

\* What belongs to user userId: the Lists it owns, the Items of those
\* Lists, the Claims on those Items.
OwnedLists(userId) == ListsByOwner(userId)
OwnedItems(userId) ==
  {i \in items : \E l \in OwnedLists(userId) : i.listId = IdString(l._id)}
OwnedClaims(userId) ==
  {c \in claims : \E i \in OwnedItems(userId) : c.itemId = IdString(i._id)}

\* C9: after a delete-user for user U that answered 200, U, every List U
\* owned, every Item of those Lists and every Claim on those Items are
\* gone, and every other User, List, Item and Claim is as it was.
C9_DeleteUserCascade ==
  \A cookie \in Cookies, body \in DeleteBodies :
    ~ENABLED (/\ DeleteUser(cookie, body)
              /\ last'.status = 200
              /\ ~(/\ users' = {u \in users : u._id # ObjectId(cookie.userId)}
                   /\ lists' = lists \ OwnedLists(cookie.userId)
                   /\ items' = items \ OwnedItems(cookie.userId)
                   /\ claims' = claims \ OwnedClaims(cookie.userId)
                   /\ {l \in lists' : l.ownerId = cookie.userId} = {}))

\* User 1 is gone after a delete-user that answered 200 and cleared the
\* cookie, and user 2 is stored with a List, its Item and that Item's
\* Claim.
C9_OtherUserSurvives ==
  /\ last.op = "deleteUser" /\ last.status = 200 /\ last.cookie = "cleared"
  /\ UsersById(1) = {} /\ UsersById(2) # {}
  /\ nextId = [lists |-> 3, items |-> 3, claims |-> 3]
  /\ \E l \in lists, i \in items, c \in claims :
       /\ lists = {l} /\ items = {i} /\ claims = {c}
       /\ l.ownerId = IdString(2)
       /\ i.listId = IdString(l._id) /\ c.itemId = IdString(i._id)

\* The caller is authenticated, confirmed with the literal DELETE and gave
\* the password of its stored hash.
MayDelete(cookie, body) ==
  /\ requireAuth(cookie)
  /\ body.confirmation = "DELETE"
  /\ \E u \in UsersById(ObjectId(cookie.userId)) :
       BcryptCompare(body.password, u.passwordHash)

NoOrphans ==
  /\ \A c \in claims : ItemsById(ObjectId(c.itemId)) # {}
  /\ \A i \in items : ListsById(ObjectId(i.listId)) # {}

\* C11: in a delete-list or delete-user served without concurrent requests
\* the Claims go first, then the Items, then the Lists, then the User: when
\* the Items are about to be deleted no Claim references them, when the
\* Lists are about to be deleted they hold no Item, when the User is about
\* to be deleted it owns no List.  So wherever the sequence stops (a store
\* call throws, or the process dies between two calls) every stored Claim
\* references a stored Item and every stored Item a stored List.
C11_ChildrenBeforeParents ==
  /\ NoOrphans
  /\ RqAt("deleteList", "deleteItems") => ClaimsByItemIdIn(rq.itemIds) = {}
  /\ RqAt("deleteList", "deleteList") => ItemsByListId(rq.id) = {}
  /\ RqAt("deleteUser", "deleteItems") => ClaimsByItemIdIn(rq.itemIds) = {}
  /\ RqAt("deleteUser", "deleteLists") => ItemsByListIdIn(rq.listIds) = {}
  /\ RqAt("deleteUser", "deleteUser") => ListsByOwner(rq.userId) = {}

\* A delete-user stopped with 500 after it deleted Claims: Items and Lists
\* of the user are still stored, fewer Claims than at the start.
C11_StoppedMidway ==
  /\ last.op = "deleteUser" /\ last.status = 500
  /\ rq.pc = "idle"
  /\ claims = {} /\ nextId.claims = 3
  /\ Cardinality(items) = 2 /\ Cardinality(lists) = 2


\* C12: in every reachable state no two Claims hold the same secretToken,
\* however the steps of concurrent create-claim requests interleave: a
\* request that passed the uniqueness lookup with a token another request
\* stored meanwhile is rejected at its insert (the index on
\* claims.secretToken is unique), answers 500 and stores nothing.
C12_SecretTokenUnique ==
  /\ \A c1 \in claims, c2 \in claims : c1.secretToken = c2.secretToken => c1 = c2
  /\ \A p \in Procs :
       (cc[p].pc = "insert" /\ TokenTaken(cc[p].secretToken))
         => ~ENABLED (CC_Insert(p) /\ ~(last'.status = 500 /\ claims' = claims))

\* A request has passed the uniqueness lookup with a token that a Claim
\* stored since then holds, and the other request answered 201.
C12_SameTokenDrawn ==
  /\ \E p \in Procs : cc[p].pc = "insert" /\ TokenTaken(cc[p].secretToken)
  /\ last.op = "createClaim" /\ last.status = 201


\* The candidates of draws, in order, that the collection does not hold.
FreeDraws(draws, taken) == {i \in 1..maxAttempts : draws[i] \notin taken}
Minimum(S) == CHOOSE i \in S : \A j \in S : i <= j

\* The loop on the values taken: it ends with the first of its (at most
\* maxAttempts) candidates that is not taken, and fails exactly if every
\* candidate is taken.
LoopStopsAtFirstFree(alphabet, taken) ==
  \A draws \in NanoidDraws(alphabet) :
    LET r == UniqueLoop(draws, taken, 0) IN
      IF FreeDraws(draws, taken) = {}
        THEN ~r.isUnique
        ELSE r.isUnique /\ r.value = draws[Minimum(FreeDraws(draws, taken))]

\* C13: the uniqueness loop of create-claim and create-list draws at most
\* maxAttempts candidates and stops at the first one the collection does
\* not hold; the request then inserts the record with that candidate
\* (201, one new document, its token or share id new to the collection);
\* if every candidate collides the request answers 500 and inserts
\* nothing, which cannot happen while the collection is empty.
C13_UniqueLoopBounded ==
  /\ LoopStopsAtFirstFree(SecretTokens, {c.secretToken : c \in claims})
  /\ LoopStopsAtFirstFree(ShareIds, {l.shareId : l \in lists})
  /\ \A itemId \in HexItemIds, name \in ClaimerNames :
       (ItemFound(itemId) /\ ListIsPublic(ListIdOf(itemId)) /\ ~AlreadyClaimed(itemId))
         => ~ENABLED (/\ CreateClaim(itemId, name)
                      /\ ~(\/ /\ last'.status = 201
                              /\ \E c \in claims' \ claims :
                                   /\ claims' = claims \cup {c}
                                   /\ ~TokenTaken(c.secretToken)
                           \/ /\ last'.status = 500
                              /\ claims' = claims
                              /\ claims # {}))
  /\ \A cookie \in Cookies, isPublic \in BOOLEAN :
       requireAuth(cookie)
         => ~ENABLED (/\ CreateList(cookie, isPublic)
                      /\ ~(\/ /\ last'.status = 201
                              /\ \E l \in lists' \ lists :
                                   /\ lists' = lists \cup {l}
                                   /\ ListsByShareId(l.shareId) = {}
                           \/ /\ last'.status = 500
                              /\ lists' = lists
                              /\ lists # {}))

\* A create-list failed after maxAttempts collisions with the stored share
\* id, and a create-claim succeeded with a token no stored Claim held.
C13_LoopExhausted ==
  /\ last.op = "createList" /\ last.status = 500
  /\ Cardinality(lists) = 1
  /\ Cardinality(claims) = 2


\* An authenticated caller and a stored List (an Item of a stored List)
\* that someone else owns.
OwnedByAnother(cookie, listId) ==
  /\ requireAuth(cookie)
  /\ ListsById(ObjectId(listId)) # {}
  /\ ListsByIdAndOwner(ObjectId(listId), cookie.userId) = {}
ItemOfAnother(cookie, id) ==
  /\ ItemFound(id)
  /\ OwnedByAnother(cookie, ListIdOf(id))
Unchanged == lists' = lists /\ items' = items /\ claims' = claims

\* What the Express handlers answer to a caller who does not own the
\* target: 403 for delete-item, 404 for the list operations, for create-item
\* and for list-items, the store unchanged.
ExpressNonOwnerRejected ==
  /\ \A cookie \in Cookies, id \in HexItemIds :
       ItemOfAnother(cookie, id)
         => ~ENABLED (DeleteItem(cookie, id) /\ ~(last'.status = 403 /\ Unchanged))
  /\ \A cookie \in Cookies, id \in HexListIds :
       OwnedByAnother(cookie, id)
         => /\ ~ENABLED (DeleteList(cookie, id) /\ ~(last'.status = 404 /\ Unchanged))
            /\ \A setPublic \in {"keep", "public", "private"} :
                 ~ENABLED (/\ UpdateList(cookie, id, setPublic)
                           /\ ~(last'.status = 404 /\ Unchanged))
            /\ ~ENABLED (CreateItem(cookie, id) /\ ~(last'.status = 404 /\ Unchanged))
            /\ GetList(cookie, id).status = 404
            /\ GetItems(cookie, id).status = 404

\* Neither handler set lets a caller who does not own the target change
\* Lists, Items or Claims.
NonOwnerNeverWrites ==
  /\ \A cookie \in Cookies, id \in HexItemIds :
       ItemOfAnother(cookie, id)
         => ~ENABLED ((DeleteItem(cookie, id) \/ DeleteItemServerless(cookie, id))
                      /\ ~Unchanged)
  /\ \A cookie \in Cookies, id \in HexListIds :
       OwnedByAnother(cookie, id)
         => ~ENABLED ((\/ DeleteList(cookie, id)
                       \/ CreateItem(cookie, id)
                       \/ CreateItemServerless(cookie, id)
                       \/ \E setPublic \in {"keep", "public", "private"} :
                            UpdateList(cookie, id, setPublic))
                      /\ ~Unchanged)

\* C14: a request of an authenticated user who does not own the target
\* (served by either handler set) changes nothing and answers 403 for a
\* delete of an Item of someone else's List, 404 for get, patch and delete
\* of someone else's List and for create-item and list-items naming it.
C14_NonOwnerRejected ==
  /\ ExpressNonOwnerRejected
  /\ \A cookie \in Cookies, id \in HexItemIds :
       ItemOfAnother(cookie, id)
         => ~ENABLED (/\ DeleteItemServerless(cookie, id)
                      /\ ~(last'.status = 403 /\ Unchanged))
  /\ \A cookie \in Cookies, id \in HexListIds :
       OwnedByAnother(cookie, id)
         => ~ENABLED (/\ CreateItemServerless(cookie, id)
                      /\ ~(last'.status = 404 /\ Unchanged))


\* C15: whenever create-list inserts a List, the User its ownerId names is
\* stored at that moment, also when the session token outlives the account.
C15_OwnerExistsAtInsert ==
  \A cookie \in Cookies, isPublic \in BOOLEAN :
    ~ENABLED (/\ CreateList(cookie, isPublic)
              /\ \E l \in lists' \ lists : UsersById(ObjectId(l.ownerId)) = {})


\* C16: whenever create-item inserts an Item, the List its listId names is
\* stored and owned by the caller at that moment, however a delete-list or
\* delete-user interleaves with the request.
C16_ListExistsAtInsert ==
  ~ENABLED (/\ CI_Insert
            /\ \E i \in items' \ items :
                 ListsByIdAndOwner(ObjectId(i.listId), rq.userId) = {})


\* A step of the request in progress other than its failure.
RqStep ==
  \/ DL_FindItems \/ DL_DeleteClaims \/ DL_DeleteItems \/ DL_DeleteList
  \/ DU_FindLists \/ DU_FindItems \/ DU_DeleteClaims \/ DU_DeleteItems
  \/ DU_DeleteLists \/ DU_DeleteUser

\* C17: when a store call of create-claim, delete-list or delete-user
\* throws, the handler answers 500 'Internal server error', the store stays
\* as the calls before it left it (nothing is undone), and the request is
\* over: none of its later calls is made.
C17_ThrowLeavesPartialState ==
  /\ rq.pc # "idle"
       => ~ENABLED (/\ RqThrow
                    /\ ~(/\ last' = Response(rq.op, 500, "unchanged", InternalServerError)
                         /\ store' = store
                         /\ rq'.pc = "idle"))
  /\ \A p \in Procs :
       cc[p].pc # "idle"
         => ~ENABLED (/\ CC_Throw(p)
                      /\ ~(/\ last' = Response("createClaim", 500, "unchanged",
                                               InternalServerError)
                           /\ store' = store
                           /\ cc'[p].pc = "idle"))
  /\ rq.pc = "idle" => ~ENABLED RqStep
  /\ \A cookie \in Cookies, id \in HexListIds :
       ~ENABLED (/\ DL_FindList(cookie, id, TRUE)
                 /\ ~(last'.status \in {401, 500} /\ store' = store /\ rq'.pc = "idle"))
  /\ \A cookie \in Cookies, body \in DeleteBodies :
       ~ENABLED (/\ DU_FindUser(cookie, body, TRUE)
                 /\ ~(last'.status \in {401, 400, 500} /\ store' = store
                      /\ rq'.pc = "idle"))

\* A delete-list stopped with 500 after its deleteMany on the claims: the
\* claims are gone, the items and both lists are still stored.
C17_PartialDelete ==
  /\ last = Response("deleteList", 500, "unchanged", InternalServerError)
  /\ rq.pc = "idle"
  /\ claims = {} /\ nextId.claims = 3
  /\ Cardinality(items) = 2 /\ Cardinality(lists) = 2


\* The ids of a set of exported documents and of stored documents.
ExportedIds(docs) == {d.id : d \in docs}
StoredIds(docs) == {IdString(d._id) : d \in docs}

MaxUsers == 2

toLowerCase(str) ==
  [k \in DOMAIN str |-> IF str[k] \in 65..90 THEN str[k] + 32 ELSE str[k]]

\* "a@x", "A@x", "A@X", "b@x", "B@x", "c@x"
Emails == {<<97, 64, 120>>, <<65, 64, 120>>, <<65, 64, 88>>,
           <<98, 64, 120>>, <<66, 64, 120>>, <<99, 64, 120>>}
NoEmail == <<>>
NoPassword == ""
AccountPasswords == {PasswordOf(1), PasswordOf(2)}

UsersByEmail(email) == {u \in users : u.email = email}
UsersByEmailExcept(email, oid) == {u \in users : u.email = email /\ u._id # oid}

\* The bodies of signup requests: valid is the outcome of
\* validate(signupSchema, body).
SignupBodies == [valid : BOOLEAN, email : Emails, password : {PasswordOf(1)}]
\* The bodies of settings requests: the email and the password pair are
\* optional.
SettingsBodies ==
  [valid : BOOLEAN, email : Emails \cup {NoEmail},
   currentPassword : AccountPasswords \cup {NoPassword},
   newPassword : {PasswordOf(2), NoPassword}]

\* Mutation of Signup: the lookup compares the address as it was typed.
SignupExactMatch(body) ==
  /\ IF ~body.valid
       THEN /\ Respond("signup", 400, "unchanged", {})
            /\ UNCHANGED <<store, cc>>
       ELSE IF UsersByEmail(body.email) # {}
         THEN /\ Respond("signup", 409, "unchanged", {})
              /\ UNCHANGED <<store, cc>>
         ELSE IF UsersByEmail(toLowerCase(body.email)) # {}
           THEN /\ Respond("signup", 500, "unchanged", InternalServerError)
                /\ UNCHANGED <<store, cc>>
           ELSE /\ nextId.users <= MaxUsers
                /\ users' = users \cup
                      {[_id |-> nextId.users, email |-> toLowerCase(body.email),
                        passwordHash |-> Hash(body.password)]}
                /\ nextId' = [nextId EXCEPT !.users = @ + 1]
                /\ Respond("signup", 201, "set",
                           {[id |-> IdString(nextId.users),
                             email |-> toLowerCase(body.email)]})
                /\ UNCHANGED <<lists, items, claims, cc>>

\* POST /api/auth/signup, once the rate limiter has admitted the request.
\* insertOne of an email the unique index already holds throws, and the
\* handler's catch answers 500.
Signup(body) ==
  /\ IF ~body.valid
       THEN /\ Respond("signup", 400, "unchanged", {})
            /\ UNCHANGED <<store, cc>>
       ELSE IF UsersByEmail(toLowerCase(body.email)) # {}
         THEN /\ Respond("signup", 409, "unchanged", {})
              /\ UNCHANGED <<store, cc>>
         ELSE IF UsersByEmail(toLowerCase(body.email)) # {}
           THEN /\ Respond("signup", 500, "unchanged", InternalServerError)
                /\ UNCHANGED <<store, cc>>
           ELSE /\ nextId.users <= MaxUsers
                /\ users' = users \cup
                      {[_id |-> nextId.users, email |-> toLowerCase(body.email),
                        passwordHash |-> Hash(body.password)]}
                /\ nextId' = [nextId EXCEPT !.users = @ + 1]
                /\ Respond("signup", 201, "set",
                           {[id |-> IdString(nextId.users),
                             email |-> toLowerCase(body.email)]})
                /\ UNCHANGED <<lists, items, claims, cc>>

\* PATCH /api/users/settings, once the rate limiter has admitted the
\* request.  updateOne to an email the unique index holds for another
\* document throws, and the handler's catch answers 500.
UpdateSettings(cookie, updates) ==
  IF ~requireAuth(cookie)
    THEN /\ Respond("updateSettings", 401, "unchanged", {})
         /\ UNCHANGED <<store, cc>>
    ELSE IF ~updates.valid
      THEN /\ Respond("updateSettings", 400, "unchanged", {})
           /\ UNCHANGED <<store, cc>>
      ELSE LET found == UsersById(ObjectId(cookie.userId)) IN
        IF found = {}
          THEN /\ Respond("updateSettings", 404, "unchanged", {})
               /\ UNCHANGED <<store, cc>>
          ELSE
            LET user == CHOOSE u \in found : TRUE
                emailChange == updates.email # NoEmail /\ updates.email # user.email
                passwordChange == /\ updates.newPassword # NoPassword
                                  /\ updates.currentPassword # NoPassword
                email == IF emailChange THEN toLowerCase(updates.email)
                                        ELSE user.email
                passwordHash == IF passwordChange THEN Hash(updates.newPassword)
                                                  ELSE user.passwordHash IN
            IF emailChange /\ UsersByEmailExcept(toLowerCase(updates.email), user._id) # {}
              THEN /\ Respond("updateSettings", 409, "unchanged", {})
                   /\ UNCHANGED <<store, cc>>
              ELSE IF passwordChange
                        /\ ~BcryptCompare(updates.currentPassword, user.passwordHash)
                THEN /\ Respond("updateSettings", 401, "unchanged", {})
                     /\ UNCHANGED <<store, cc>>
                ELSE IF UsersByEmailExcept(email, user._id) # {}
                  THEN /\ Respond("updateSettings", 500, "unchanged", InternalServerError)
                       /\ UNCHANGED <<store, cc>>
                  ELSE /\ users' = (users \ found) \cup
                             {[user EXCEPT !.email = email,
                                           !.passwordHash = passwordHash]}
                       /\ Respond("updateSettings", 200, "unchanged",
                                  {[id |-> cookie.userId, email |-> email]})
                       /\ UNCHANGED <<lists, items, claims, nextId, cc>>

UsersInit ==
  /\ users = {}
  /\ lists = {}
  /\ items = {}
  /\ claims = {}
  /\ nextId = [lists |-> 1, items |-> 1, claims |-> 1, users |-> 1]
  /\ cc = [p \in Procs |-> IdleProc]
  /\ last = Response("none", 0, "unchanged", {})
  /\ AuxInit

ReqSignup == \E body \in SignupBodies : Signup(body)
ReqUpdateSettings ==
  \E cookie \in Cookies, updates \in SettingsBodies : UpdateSettings(cookie, updates)

UsersNext == ReqSignup \/ ReqUpdateSettings

SpecUsers == UsersInit /\ [][UsersNext]_vars

\* The address is held by a User, whatever the case it is typed in.
EmailInUse(email) == UsersByEmail(toLowerCase(email)) # {}
EmailInUseByAnother(email, oid) ==
  UsersByEmailExcept(toLowerCase(email), oid) # {}

RlWindowMs == 2500
RlMaxRequests == 3
MaxNow == 3500
Advances == {500, 1000}

\* Math.ceil(x / d) on integers.
MathCeil(x, d) == IF x % d = 0 THEN x \div d ELSE (x \div d) + 1

\* next() was called: the response has no status yet.
Admitted == 0

Entry(count, resetTime) ==
  [present |-> TRUE, count |-> count, resetTime |-> resetTime]

RateLimitHeaders(remaining, resetTime) ==
  [limit |-> RlMaxRequests, remaining |-> remaining, reset |-> resetTime]

\* The middleware returned by rateLimiter(options), for one request.
rateLimiter(identifier) ==
  LET data == rateLimitStore[identifier] IN
  /\ IF ~data.present \/ now > data.resetTime
       THEN /\ rateLimitStore' = [rateLimitStore EXCEPT
                                    ![identifier] = Entry(1, now + RlWindowMs)]
            /\ admittedAt' = [admittedAt EXCEPT ![identifier] = Append(@, now)]
            /\ last' = Response("rateLimiter", Admitted, "unchanged",
                                {RateLimitHeaders(RlMaxRequests - 1, now + RlWindowMs)})
       ELSE IF data.count >= RlMaxRequests
         THEN /\ last' = Response("rateLimiter", 429, "unchanged",
                   {RateLimitHeaders(0, data.resetTime) @@
                    [retryAfter |-> MathCeil(data.resetTime - now, 1000)]})
              /\ UNCHANGED <<rateLimitStore, admittedAt>>
         ELSE /\ rateLimitStore' = [rateLimitStore EXCEPT
                                      ![identifier].count = @ + 1]
              /\ admittedAt' = [admittedAt EXCEPT ![identifier] = Append(@, now)]
              /\ last' = Response("rateLimiter", Admitted, "unchanged",
                                  {RateLimitHeaders(RlMaxRequests - (data.count + 1),
                                                    data.resetTime)})
  /\ UNCHANGED <<store, cc, rq, now>>

\* checkRateLimit(identifier, options) as a legacy handler calls it: the
\* handler answers 429 with a message when allowed is false and goes on
\* otherwise; remaining and resetTime of the result are not used.
checkRateLimit(identifier) ==
  LET data == rateLimitStore[identifier] IN
  /\ IF ~data.present \/ now > data.resetTime
       THEN /\ rateLimitStore' = [rateLimitStore EXCEPT
                                    ![identifier] = Entry(1, now + RlWindowMs)]
            /\ admittedAt' = [admittedAt EXCEPT ![identifier] = Append(@, now)]
            /\ last' = Response("checkRateLimit", Admitted, "unchanged", {})
       ELSE IF data.count >= RlMaxRequests
         THEN /\ last' = Response("checkRateLimit", 429, "unchanged",
                                  {[message |-> "Too many requests"]})
              /\ UNCHANGED <<rateLimitStore, admittedAt>>
         ELSE /\ rateLimitStore' = [rateLimitStore EXCEPT
                                      ![identifier].count = @ + 1]
              /\ admittedAt' = [admittedAt EXCEPT ![identifier] = Append(@, now)]
              /\ last' = Response("checkRateLimit", Admitted, "unchanged", {})
  /\ UNCHANGED <<store, cc, rq, now>>

\* setInterval(cleanupStore, ...): expired entries of one module's Map are
\* deleted.
cleanupStore(identifiers) ==
  /\ rateLimitStore' =
       [identifier \in Identifiers |->
          IF /\ identifier \in identifiers
             /\ rateLimitStore[identifier].present
             /\ now > rateLimitStore[identifier].resetTime
            THEN NoEntry ELSE rateLimitStore[identifier]]
  /\ UNCHANGED <<store, cc, last, rq, now, admittedAt>>

\* Date.now() moves on.  Admissions older than one window's length are
\* dropped from the record.
Tick(d) ==
  /\ now + d <= MaxNow
  /\ now' = now + d
  /\ admittedAt' = [identifier \in Identifiers |->
                      SelectSeq(admittedAt[identifier],
                                LAMBDA t : t >= now + d - RlWindowMs)]
  /\ UNCHANGED <<store, cc, last, rq, rateLimitStore>>

\* A request under whichever limiter owns its identifier.
Limit(identifier) ==
  IF identifier \in ExpressIdentifiers THEN rateLimiter(identifier)
                                       ELSE checkRateLimit(identifier)

RateLimitInit ==
  /\ users = {}
  /\ lists = {}
  /\ items = {}
  /\ claims = {}
  /\ nextId = [lists |-> 1, items |-> 1, claims |-> 1]
  /\ cc = [p \in Procs |-> IdleProc]
  /\ last = Response("none", 0, "unchanged", {})
  /\ AuxInit

ReqRateLimiter == \E identifier \in ExpressIdentifiers : rateLimiter(identifier)
ReqCheckRateLimit == \E identifier \in ServerlessIdentifiers : checkRateLimit(identifier)
CleanupTimer ==
  \E identifiers \in {ExpressIdentifiers, ServerlessIdentifiers} :
    cleanupStore(identifiers)
ClockAdvances == \E d \in Advances : Tick(d)

RateLimitNext ==
  ReqRateLimiter \/ ReqCheckRateLimit \/ CleanupTimer \/ ClockAdvances

SpecRateLimit == RateLimitInit /\ [][RateLimitNext]_vars


\* The requests admitted for the identifier within its entry's window.
AdmittedInWindow(identifier) ==
  LET data == rateLimitStore[identifier] IN
  Len(SelectSeq(admittedAt[identifier],
                LAMBDA t : t >= data.resetTime - RlWindowMs /\ t <= data.resetTime))

\* The window of the identifier's entry has not ended and its budget is
\* spent.
BudgetSpent(identifier) ==
  /\ rateLimitStore[identifier].present
  /\ now <= rateLimitStore[identifier].resetTime
  /\ AdmittedInWindow(identifier) >= RlMaxRequests

\* h is the least number of seconds that covers ms milliseconds.
CoversMs(h, ms) == h * 1000 >= ms /\ (h - 1) * 1000 < ms

\* The response carries a retry-after hint, and it is the right one.
HasRetryAfter(response, ms) ==
  /\ response.body # {}
  /\ \A b \in response.body :
       "retryAfter" \in DOMAIN b /\ CoversMs(b.retryAfter, ms)

\* The limiter's behaviour for one identifier: the budget of a window is
\* never exceeded, a request over budget is answered 429 and leaves the
\* Map as it is, and a request after the window's end opens a new window
\* with count 1.
WindowContract(identifier) ==
  LET data == rateLimitStore[identifier] IN
  /\ data.present => AdmittedInWindow(identifier) <= RlMaxRequests
  /\ BudgetSpent(identifier)
       => ~ENABLED (Limit(identifier)
                      /\ ~(last'.status = 429 /\ rateLimitStore' = rateLimitStore))
  /\ (~data.present \/ now > data.resetTime)
       => ~ENABLED (Limit(identifier)
                      /\ ~(/\ last'.status = Admitted
                           /\ rateLimitStore'[identifier] = Entry(1, now + RlWindowMs)))

\* A request over budget is answered with the hint
\* ceil((resetTime - now) / 1000).
RejectionHint(identifier) ==
  BudgetSpent(identifier)
    => ~ENABLED (Limit(identifier)
                   /\ ~HasRetryAfter(last', rateLimitStore[identifier].resetTime - now))

\* The Express middleware keeps the window contract and gives the hint;
\* the legacy checkRateLimit keeps the window contract.
ExpressRateLimit ==
  \A identifier \in ExpressIdentifiers :
    WindowContract(identifier) /\ RejectionHint(identifier)
LegacyRateLimit ==
  \A identifier \in ServerlessIdentifiers : WindowContract(identifier)

\* C20: for every rate-limit identifier at most maxRequests requests are
\* admitted in a window; each further request of the window is answered
\* 429 without a change to count or resetTime and with the retry-after hint
\* ceil((resetTime - now) / 1000); the first request after resetTime is
\* admitted and opens a new window with count 1.
C20_RateLimitWindow ==
  \A identifier \in Identifiers :
    WindowContract(identifier) /\ RejectionHint(identifier)


(***************************************************************************)
(* The key of the rate-limit counter.  A request comes from a client ip    *)
(* and, on an authenticated endpoint, carries a session of a user.  The    *)
(* Express routes run generalRateLimiter (keyPrefix 'general') after       *)
(* requireAuth and claimsRateLimiter (keyPrefix 'claims') on the public    *)
(* claim routes; the legacy handlers build `lists:${userId}` and           *)
(* `claims:${clientIp}`.                                                   *)
(***************************************************************************)
ClientIps == {"10.0.0.1", "10.0.0.2"}
ClientRequests == [userId : {IdString(u) : u \in UserIds}, ip : ClientIps]

getClientIp(req) == req.ip

\* The template literal `${prefix}:${who}`.
KeyString(prefix, who) ==
  CASE prefix = "general" /\ who = "10.0.0.1" -> "general:10.0.0.1"
    [] prefix = "general" /\ who = "10.0.0.2" -> "general:10.0.0.2"
    [] prefix = "claims" /\ who = "10.0.0.1" -> "claims:10.0.0.1"
    [] prefix = "claims" /\ who = "10.0.0.2" -> "claims:10.0.0.2"
    [] prefix = "lists" /\ who = IdString(1) -> "lists:1"
    [] prefix = "lists" /\ who = IdString(2) -> "lists:2"

KeyIdentifiers ==
  {KeyString("general", ip) : ip \in ClientIps}
    \cup {KeyString("claims", ip) : ip \in ClientIps}
    \cup {KeyString("lists", IdString(u)) : u \in UserIds}

\* The identifier each kind of endpoint counts a request under.
ExpressAuthenticatedKey(req) == KeyString("general", getClientIp(req))
LegacyAuthenticatedKey(req) == KeyString("lists", req.userId)
PublicKey(req) == KeyString("claims", getClientIp(req))

\* An authenticated Express route, an authenticated legacy handler, and the
\* public claim endpoints of either backend, up to the limiter's verdict.
ExpressAuthenticated(req) == rateLimiter(ExpressAuthenticatedKey(req))
LegacyAuthenticated(req) == checkRateLimit(LegacyAuthenticatedKey(req))
ExpressPublic(req) == rateLimiter(PublicKey(req))
LegacyPublic(req) == checkRateLimit(PublicKey(req))

RateKeyInit ==
  /\ users = {[_id |-> u, passwordHash |-> Hash(PasswordOf(u))] : u \in UserIds}
  /\ lists = {}
  /\ items = {}
  /\ claims = {}
  /\ nextId = [lists |-> 1, items |-> 1, claims |-> 1]
  /\ cc = [p \in Procs |-> IdleProc]
  /\ last = Response("none", 0, "unchanged", {})
  /\ rq = IdleRq
  /\ rateLimitStore = [identifier \in KeyIdentifiers |-> NoEntry]
  /\ now = 0
  /\ admittedAt = [identifier \in KeyIdentifiers |-> <<>>]

ReqExpressAuthenticated == \E req \in ClientRequests : ExpressAuthenticated(req)
ReqLegacyAuthenticated == \E req \in ClientRequests : LegacyAuthenticated(req)
ReqExpressPublic == \E req \in ClientRequests : ExpressPublic(req)
ReqLegacyPublic == \E req \in ClientRequests : LegacyPublic(req)

RateKeyNext ==
  \/ ReqExpressAuthenticated
  \/ ReqLegacyAuthenticated
  \/ ReqExpressPublic
  \/ ReqLegacyPublic

SpecRateKey == RateKeyInit /\ [][RateKeyNext]_vars

\* The request of one user leaves the counter of another user's request
\* on the same kind of endpoint as it is.
LeavesBudgetOf(req, other, Key(_), Endpoint(_)) ==
  ~ENABLED (Endpoint(req) /\ rateLimitStore'[Key(other)] # rateLimitStore[Key(other)])

\* The legacy handlers count authenticated requests per user; the Express
\* routes count them per client ip; the public endpoints count per ip.
LegacyPerUser ==
  \A req, other \in ClientRequests :
    req.userId # other.userId
      => LeavesBudgetOf(req, other, LegacyAuthenticatedKey, LegacyAuthenticated)
ExpressPerIp ==
  \A req, other \in ClientRequests :
    req.ip # other.ip
      => LeavesBudgetOf(req, other, ExpressAuthenticatedKey, ExpressAuthenticated)
PublicPerIp ==
  \A req, other \in ClientRequests :
    /\ req.ip # other.ip
         => /\ LeavesBudgetOf(req, other, PublicKey, ExpressPublic)
            /\ LeavesBudgetOf(req, other, PublicKey, LegacyPublic)
    /\ req.ip = other.ip => PublicKey(req) = PublicKey(other)

\* C21: on authenticated endpoints the counter is keyed by the user id, so
\* a request of one user never consumes the budget of another user, even
\* when both share a client ip; on public endpoints the counter is keyed
\* by the client ip.
C21_BudgetPerUser ==
  /\ \A req, other \in ClientRequests :
       req.userId # other.userId
         => /\ LeavesBudgetOf(req, other, LegacyAuthenticatedKey, LegacyAuthenticated)
            /\ LeavesBudgetOf(req, other, ExpressAuthenticatedKey, ExpressAuthenticated)
  /\ PublicPerIp


\* The status codes the handlers answer with.
Statuses == {200, 201, 400, 401, 403, 404, 409, 500}

\* Two handlers, given the same request in the same store, can answer the
\* same status codes, and with each of them both change the store or both
\* leave it.
SameOutcomes(Express, Serverless) ==
  \A status \in Statuses, changed \in BOOLEAN :
    ENABLED (Express /\ last'.status = status /\ (store' # store) = changed)
      <=> ENABLED (Serverless /\ last'.status = status /\ (store' # store) = changed)

\* C22: for the same request against the same store contents the legacy
\* serverless handler and the Express route return the same status code
\* and leave the store in the same state.
C22_HandlersAgree ==
  /\ \A itemId \in HexItemIds, name \in ClaimerNames :
       nextId.claims <= MaxClaims
         => SameOutcomes(CreateClaim(itemId, name), CreateClaimServerless(itemId, name))
  /\ \A cookie \in Cookies, listId \in HexListIds :
       nextId.items <= MaxItems
         => SameOutcomes(CreateItem(cookie, listId), CreateItemServerless(cookie, listId))
  /\ \A cookie \in Cookies, id \in HexItemIds :
       SameOutcomes(DeleteItem(cookie, id), DeleteItemServerless(cookie, id))
  /\ \A shareId \in ShareIds :
       ShareView(shareId).status = ShareViewServerless(shareId).status

\* Where the request is refused before the lookup by _id, both handlers
\* agree: without a session, and for an Item that does not exist.
HandlersAgreeOnRefusal ==
  /\ \A itemId \in HexItemIds, name \in ClaimerNames :
       (nextId.claims <= MaxClaims /\ ~ItemFound(itemId))
         => SameOutcomes(CreateClaim(itemId, name), CreateClaimServerless(itemId, name))
  /\ \A cookie \in Cookies, listId \in HexListIds :
       (nextId.items <= MaxItems /\ ~requireAuth(cookie))
         => SameOutcomes(CreateItem(cookie, listId), CreateItemServerless(cookie, listId))
  /\ \A cookie \in Cookies, id \in HexItemIds :
       (~requireAuth(cookie) \/ ItemsById(ObjectId(id)) = {})
         => SameOutcomes(DeleteItem(cookie, id), DeleteItemServerless(cookie, id))
  /\ \A shareId \in ShareIds :
       (ListsByShareId(shareId) = {} \/ \A l \in ListsByShareId(shareId) : ~l.isPublic)
         => ShareView(shareId).status = ShareViewServerless(shareId).status


\* C23: whenever no request is in flight every Claim's itemId identifies a
\* stored Item and every Item's listId a stored List, whatever the
\* interleaving of create-item and create-claim requests with delete-item,
\* delete-list and delete-user requests.
C23_NoOrphansWhenIdle == NoRequest => NoOrphans


(***************************************************************************)
(* DELETE /api/claims/:id?token=X one store call at a time, and            *)
(* SpecRetract: another retraction or a create-claim is served between the *)
(* findOne and the deleteOne of a retraction.  The store starts with one   *)
(* Claim on Item 1 of a public List.                                       *)
(***************************************************************************)
\* claimsCollection.findOne({_id}); 404 without a Claim, 403 on another
\* token.
RC_FindClaim(id, token) ==
  /\ NoRequest
  /\ IF TokenLength(token) < MinTokenLength
       THEN RqRefuse("deleteClaim", 400)
       ELSE LET found == ClaimsById(ObjectId(id)) IN
         IF found = {}
           THEN RqRefuse("deleteClaim", 404)
           ELSE IF (CHOOSE c \in found : TRUE).secretToken # token
             THEN RqRefuse("deleteClaim", 403)
             ELSE /\ rq' = [IdleRq EXCEPT !.op = "deleteClaim",
                                          !.pc = "deleteOne", !.id = id]
                  /\ UNCHANGED last
  /\ UNCHANGED store /\ RqFrame

\* claimsCollection.deleteOne({_id}); 200, whatever the call deleted.
RC_DeleteOne ==
  /\ RqAt("deleteClaim", "deleteOne")
  /\ claims' = claims \ ClaimsById(ObjectId(rq.id))
  /\ RqRespond(200, "unchanged", {})
  /\ UNCHANGED <<users, lists, items, nextId>> /\ RqFrame

RetractInit ==
  /\ users = {[_id |-> u, passwordHash |-> Hash(PasswordOf(u))] : u \in UserIds}
  /\ lists = {[_id |-> 1, ownerId |-> IdString(1), isPublic |-> TRUE, shareId |-> 1]}
  /\ items = {[_id |-> 1, listId |-> IdString(1)], [_id |-> 2, listId |-> IdString(1)]}
  /\ claims = {[_id |-> 1, itemId |-> IdString(1), claimerName |-> "Al",
                secretToken |-> 1]}
  /\ nextId = [lists |-> 2, items |-> 3, claims |-> 2]
  /\ cc = [p \in Procs |-> IdleProc]
  /\ last = Response("createClaim", 201, "unchanged", {})
  /\ AuxInit

RetractFindClaim ==
  \E id \in HexClaimIds, token \in SuppliedTokens : RC_FindClaim(id, token)
RetractOther == ReqDeleteClaim
RetractCreateClaim == ReqCreateClaim

RetractNext ==
  \/ RetractFindClaim
  \/ RC_DeleteOne
  \/ RetractOther
  \/ RetractCreateClaim

SpecRetract == RetractInit /\ [][RetractNext]_vars

\* A retraction with the right token whose Claim another retraction has
\* deleted since the token was compared.
RetractedMeanwhile ==
  RqAt("deleteClaim", "deleteOne") /\ ClaimsById(ObjectId(rq.id)) = {}

\* Served one at a time, the second retraction of a Claim is answered 404.
SecondRetractionInTurn ==
  \A id \in HexClaimIds, token \in SecretTokens :
    (NoRequest /\ ClaimsById(ObjectId(id)) = {})
      => ~ENABLED (RC_FindClaim(id, token) /\ last'.status # 404)

\* C24: among the retract-claim requests that present a Claim's correct
\* token, concurrent ones included, at most one is answered 200 and every
\* other one 404: a retraction that finds its Claim already retracted by
\* another request is answered 404.
C24_OneRetractionSucceeds ==
  RetractedMeanwhile => ~ENABLED (RC_DeleteOne /\ last'.status # 404)


\* Served one at a time, a create-claim for an Item of a List that is not
\* public is answered 403 and inserts nothing.
PrivateListRefusedInTurn ==
  \A itemId \in HexItemIds, name \in ClaimerNames :
    (AllIdle /\ ItemFound(itemId) /\ ~ListIsPublic(ListIdOf(itemId)))
      => ~ENABLED (CreateClaim(itemId, name)
                     /\ ~(last'.status = 403 /\ claims' = claims))

\* C25: a Claim is inserted only for an Item whose List has the public
\* flag set at the moment of the insertion, whatever the interleaving of
\* the create-claim with the owner's update-list that clears the flag.
C25_PublicAtInsert ==
  \A p \in Procs :
    (cc[p].pc = "insert" /\ ~ListIsPublic(cc[p].listId))
      => ~ENABLED (CC_Insert(p) /\ claims' # claims)


\* The request a client re-issues: the session of the user whose request
\* is being served, and for delete-user the same valid body.
SessionOf(userId) == [present |-> TRUE, valid |-> TRUE, userId |-> userId]
DeleteBodyOf(userId) ==
  [password |-> PasswordOf(ObjectId(userId)), confirmation |-> "DELETE"]

\* What the delete-list in progress leaves when it runs on to its 200,
\* from where it stands.
DL_Remaining ==
  LET itemIds == IF rq.pc = "findItems"
                   THEN {IdString(i._id) : i \in ItemsByListId(rq.id)}
                   ELSE rq.itemIds IN
  [claims |-> IF rq.pc \in {"findItems", "deleteClaims"}
                THEN claims \ ClaimsByItemIdIn(itemIds) ELSE claims,
   items |-> IF rq.pc \in {"findItems", "deleteClaims", "deleteItems"}
               THEN items \ ItemsByListId(rq.id) ELSE items,
   lists |-> lists \ ListsById(ObjectId(rq.id)),
   users |-> users]

\* What the delete-user in progress leaves when it runs on to its 200.
DU_Remaining ==
  LET listIds == IF rq.pc = "findLists"
                   THEN {IdString(l._id) : l \in ListsByOwner(rq.userId)}
                   ELSE rq.listIds
      itemIds == IF rq.pc \in {"findLists", "findItems"}
                   THEN {IdString(i._id) : i \in ItemsByListIdIn(listIds)}
                   ELSE rq.itemIds IN
  [claims |-> IF rq.pc \in {"findLists", "findItems", "deleteClaims"}
                THEN claims \ ClaimsByItemIdIn(itemIds) ELSE claims,
   items |-> IF rq.pc \in {"findLists", "findItems", "deleteClaims", "deleteItems"}
               THEN items \ ItemsByListIdIn(listIds) ELSE items,
   lists |-> IF rq.pc # "deleteUser" THEN lists \ ListsByOwner(rq.userId) ELSE lists,
   users |-> users \ UsersById(ObjectId(rq.userId))]

\* The store after the step is the given one.
StoreBecomes(s) ==
  /\ claims' = s.claims /\ items' = s.items /\ lists' = s.lists /\ users' = s.users

DI_FindItem(cookie, id, throws) ==
  /\ NoRequest
  /\ IF ~requireAuth(cookie)
       THEN RqRefuse("deleteItem", 401)
       ELSE IF throws
         THEN /\ last' = Response("deleteItem", 500, "unchanged", InternalServerError)
              /\ rq' = rq
         ELSE LET found == ItemsById(ObjectId(id)) IN
           IF found = {}
             THEN RqRefuse("deleteItem", 404)
             ELSE /\ rq' = [IdleRq EXCEPT
                              !.op = "deleteItem", !.pc = "findList",
                              !.userId = cookie.userId, !.id = id,
                              !.listIds = {(CHOOSE i \in found : TRUE).listId}]
                  /\ UNCHANGED last
  /\ UNCHANGED store /\ RqFrame

\* listsCollection.findOne({_id: item.listId, ownerId}); 403 without a List
DI_FindList ==
  /\ RqAt("deleteItem", "findList")
  /\ IF \A listId \in rq.listIds : ListsByIdAndOwner(ObjectId(listId), rq.userId) = {}
       THEN RqRespond(403, "unchanged", {})
       ELSE RqGoto("deleteClaims") /\ UNCHANGED last
  /\ UNCHANGED store /\ RqFrame

\* Mutation of DI_DeleteClaims: the item is deleted before its claims.
DI_DeleteItemFirst ==
  /\ RqAt("deleteItem", "deleteClaims")
  /\ items' = items \ ItemsById(ObjectId(rq.id))
  /\ RqGoto("deleteItem")
  /\ UNCHANGED <<users, lists, claims, nextId, last>> /\ RqFrame

\* claimsCollection.deleteMany({itemId: id})
DI_DeleteClaims ==
  /\ RqAt("deleteItem", "deleteClaims")
  /\ claims' = claims \ ClaimsByItemId(rq.id)
  /\ RqGoto("deleteItem")
  /\ UNCHANGED <<users, lists, items, nextId, last>> /\ RqFrame

\* itemsCollection.deleteOne({_id}); 200
DI_DeleteItem ==
  /\ RqAt("deleteItem", "deleteItem")
  /\ items' = items \ ItemsById(ObjectId(rq.id))
  /\ RqRespond(200, "unchanged", {})
  /\ UNCHANGED <<users, lists, claims, nextId>> /\ RqFrame

DeleteItemStarts ==
  \E cookie \in Cookies, id \in HexItemIds, throws \in BOOLEAN :
    DI_FindItem(cookie, id, throws)
DeleteItemCreateClaim == NoRequest /\ ReqCreateClaim

DeleteItemNext ==
  \/ DeleteItemStarts
  \/ DI_FindList
  \/ DI_DeleteClaims
  \/ DI_DeleteItem
  \/ RqThrow
  \/ DeleteItemCreateClaim

SpecDeleteItem == CascadeInit /\ [][DeleteItemNext]_vars

\* C27: delete-item by the owner deletes the Claims whose itemId is the
\* Item before the Item.  When the Item is about to be deleted no Claim
\* references it, so a failure between the two steps leaves the Item
\* without Claims and never a Claim without its Item; the last step
\* answers 200, removes the Item and nothing else; Claims of other Items
\* and other Items are never touched.
C27_ClaimsBeforeItem ==
  /\ \A c \in claims : ItemsById(ObjectId(c.itemId)) # {}
  /\ RqAt("deleteItem", "deleteItem") => ClaimsByItemId(rq.id) = {}
  /\ RqAt("deleteItem", "deleteClaims")
       => ~ENABLED (/\ DI_DeleteClaims
                    /\ ~(/\ items' = items
                         /\ claims' = {c \in claims : c.itemId # rq.id}))
  /\ RqAt("deleteItem", "deleteItem")
       => ~ENABLED (/\ DI_DeleteItem
                    /\ ~(/\ last'.status = 200
                         /\ items' = {i \in items : IdString(i._id) # rq.id}
                         /\ claims' = claims
                         /\ \A c \in claims' : c.itemId # rq.id))
  /\ \A cookie \in Cookies, id \in HexItemIds :
       (/\ requireAuth(cookie) /\ ItemFound(id)
        /\ ListsByIdAndOwner(ObjectId(ListIdOf(id)), cookie.userId) # {})
         => ~ENABLED (/\ DeleteItem(cookie, id)
                      /\ ~(/\ last'.status = 200
                           /\ items' = {i \in items : IdString(i._id) # id}
                           /\ claims' = {c \in claims : c.itemId # id}))

\* A delete-item of the twice-claimed Item 1 was stopped by a failure after
\* its Claims were deleted: Item 1 is stored and no Claim is.
C27_ItemLeftWithoutClaims ==
  /\ last = Response("deleteItem", 500, "unchanged", InternalServerError)
  /\ NoRequest
  /\ ItemsById(1) # {}
  /\ claims = {} /\ nextId.claims = 3


\* The response r to a share view of shareId is the one the List calls
\* for: 404 without a List, 403 for a List that is not public, otherwise
\* the Items of the List, each claimed exactly if a Claim references it,
\* and of a Claim nothing but that.
ShareViewAsStated(shareId, r) ==
  LET found == ListsByShareId(shareId) IN
  IF found = {}
    THEN r.status = 404
    ELSE IF \A l \in found : ~l.isPublic
      THEN r.status = 403
      ELSE /\ r.status = 200
           /\ \A l \in found :
                {i.id : i \in r.body.items}
                  = {IdString(i._id) : i \in ItemsByListId(IdString(l._id))}
           /\ \A i \in r.body.items :
                /\ i.isClaimed <=> ClaimsByItemId(i.id) # {}
                /\ DOMAIN i \subseteq {"id", "isClaimed", "claimedAt"}

\* The Express route answers a share view as stated.
ExpressShareViewAsStated ==
  \A shareId \in ShareIds : ShareViewAsStated(shareId, ShareView(shareId))

\* C28: the public share view returns 404 when no List has the shareId and
\* 403 when the List is not public; otherwise it returns exactly the Items
\* of the List, each with isClaimed true exactly when a Claim references
\* it, and of a Claim only isClaimed and claimedAt.
C28_ShareViewExact ==
  \A shareId \in ShareIds :
    /\ ShareViewAsStated(shareId, ShareView(shareId))
    /\ ShareViewAsStated(shareId, ShareViewServerless(shareId))


(***************************************************************************)
(* requireAuth with activity tracking.  A User document may carry          *)
(* lastActivity, the time of the last authenticated request; time is       *)
(* Date.now() in milliseconds.  The clock moves by a millisecond or by     *)
(* fourteen days, so that an inactivity of exactly fourteen days and of a  *)
(* millisecond more both occur.                                            *)
(***************************************************************************)
twoWeeksInMs == 14 * 24 * 60 * 60 * 1000
ExtraMs == 2
ActivityHorizon == twoWeeksInMs + ExtraMs
ActivityAdvances == {1, twoWeeksInMs}

NoActivity == [set |-> FALSE, at |-> 0]
ActivityAt(t) == [set |-> TRUE, at |-> t]

\* generateToken({userId, email}): a token for the user, issued now.
generateToken(userId) == [userId |-> userId, issuedAt |-> now]

\* Mutation of requireAuthActivity: fourteen days of inactivity already
\* end the session.
requireAuthActivityAtFourteenDays(cookie, throws) ==
  /\ IF ~verifyToken(cookie)
       THEN /\ last' = Response("requireAuth", 401, "unchanged", {})
            /\ UNCHANGED users
       ELSE IF throws
         THEN /\ last' = Response("requireAuth", 500, "unchanged", InternalServerError)
              /\ UNCHANGED users
         ELSE LET found == UsersById(ObjectId(cookie.userId)) IN
           IF found = {}
             THEN /\ last' = Response("requireAuth", 401, "unchanged", {})
                  /\ UNCHANGED users
             ELSE LET dbUser == CHOOSE u \in found : TRUE IN
               IF dbUser.lastActivity.set /\ now - dbUser.lastActivity.at >= twoWeeksInMs
                 THEN /\ last' = Response("requireAuth", 401, "cleared", {})
                      /\ UNCHANGED users
                 ELSE /\ users' = (users \ found) \cup
                            {[dbUser EXCEPT !.lastActivity = ActivityAt(now)]}
                      /\ last' = Response("requireAuth", Admitted, "set",
                                          {generateToken(cookie.userId)})
  /\ UNCHANGED <<lists, items, claims, nextId, cc, aux>>

\* requireAuth(req, res, next): 401 without a token that verifies or
\* without its User; 401 and the cookie cleared after more than fourteen
\* days without activity; otherwise lastActivity is set, a new token is
\* put on the response and next() is called.  A store call that throws is
\* answered 500.
requireAuthActivity(cookie, throws) ==
  /\ IF ~verifyToken(cookie)
       THEN /\ last' = Response("requireAuth", 401, "unchanged", {})
            /\ UNCHANGED users
       ELSE IF throws
         THEN /\ last' = Response("requireAuth", 500, "unchanged", InternalServerError)
              /\ UNCHANGED users
         ELSE LET found == UsersById(ObjectId(cookie.userId)) IN
           IF found = {}
             THEN /\ last' = Response("requireAuth", 401, "unchanged", {})
                  /\ UNCHANGED users
             ELSE LET dbUser == CHOOSE u \in found : TRUE IN
               IF dbUser.lastActivity.set /\ now - dbUser.lastActivity.at > twoWeeksInMs
                 THEN /\ last' = Response("requireAuth", 401, "cleared", {})
                      /\ UNCHANGED users
                 ELSE /\ users' = (users \ found) \cup
                            {[dbUser EXCEPT !.lastActivity = ActivityAt(now)]}
                      /\ last' = Response("requireAuth", Admitted, "set",
                                          {generateToken(cookie.userId)})
  /\ UNCHANGED <<lists, items, claims, nextId, cc, aux>>

\* Date.now() moves on, by at most ExtraMs single milliseconds after each
\* multiple of fourteen days.
ActivityTick(d) ==
  /\ d <= ActivityHorizon - now
  /\ d < twoWeeksInMs => now % twoWeeksInMs < ExtraMs
  /\ now' = now + d
  /\ UNCHANGED <<store, cc, last, rq, rateLimitStore, admittedAt>>

\* User 1 has signed up and made no authenticated request yet; user 2 was
\* last active at time 0 or its account is deleted.
ActivityInit ==
  /\ \E deleted \in BOOLEAN :
       users = {[_id |-> 1, passwordHash |-> Hash(PasswordOf(1)),
                 lastActivity |-> NoActivity]}
               \cup (IF deleted THEN {}
                     ELSE {[_id |-> 2, passwordHash |-> Hash(PasswordOf(2)),
                            lastActivity |-> ActivityAt(0)]})
  /\ lists = {}
  /\ items = {}
  /\ claims = {}
  /\ nextId = [lists |-> 1, items |-> 1, claims |-> 1]
  /\ cc = [p \in Procs |-> IdleProc]
  /\ last = Response("none", 0, "unchanged", {})
  /\ AuxInit

ReqRequireAuth ==
  \E cookie \in Cookies, throws \in BOOLEAN : requireAuthActivity(cookie, throws)
ActivityClock == \E d \in ActivityAdvances : ActivityTick(d)

ActivityNext == ReqRequireAuth \/ ActivityClock

SpecActivity == ActivityInit /\ [][ActivityNext]_vars

\* The User of the session has been inactive for more than fourteen days.
Inactive(userId) ==
  \E u \in UsersById(ObjectId(userId)) :
    u.lastActivity.set /\ now - twoWeeksInMs > u.lastActivity.at

\* C29: a request with a valid token is answered 401 with the cookie
\* cleared and lastActivity unchanged when the User's lastActivity is more
\* than fourteen days before now, and 401 when the User no longer exists;
\* otherwise lastActivity becomes now and a token issued now is set on the
\* response before the route handler runs.
C29_ActivityWindow ==
  \A cookie \in Cookies :
    verifyToken(cookie)
      => /\ Inactive(cookie.userId)
              => ~ENABLED (/\ requireAuthActivity(cookie, FALSE)
                           /\ ~(/\ last'.status = 401 /\ last'.cookie = "cleared"
                                /\ users' = users))
         /\ UsersById(ObjectId(cookie.userId)) = {}
              => ~ENABLED (/\ requireAuthActivity(cookie, FALSE)
                           /\ ~(last'.status = 401 /\ users' = users))
         /\ (UsersById(ObjectId(cookie.userId)) # {} /\ ~Inactive(cookie.userId))
              => ~ENABLED (/\ requireAuthActivity(cookie, FALSE)
                           /\ ~(/\ last'.status = Admitted /\ last'.cookie = "set"
                                /\ last'.body = {[userId |-> cookie.userId,
                                                  issuedAt |-> now]}
                                /\ \A u \in users' :
                                     u._id = ObjectId(cookie.userId)
                                       => u.lastActivity = ActivityAt(now)
                                /\ {u \in users' : u._id # ObjectId(cookie.userId)}
                                     = {u \in users : u._id # ObjectId(cookie.userId)}))

\* User 2, last active at time 0, was refused more than fourteen days
\* later, its cookie cleared and its lastActivity left at 0.
C29_ExpiredByInactivity ==
  /\ last = Response("requireAuth", 401, "cleared", {})
  /\ \E u \in users : u._id = 2 /\ u.lastActivity = ActivityAt(0)
  /\ now > twoWeeksInMs


(***************************************************************************)
(* POST /api/items/preview.  The route that fetches the page itself        *)
(* ("direct": the legacy handler and the first Express revision) arms an   *)
(* AbortController timer and fetches once.  The later Express revision     *)
(* ("microlink") asks the Microlink API under AbortSignal.timeout and, if  *)
(* that yields no metadata for any reason, fetches the page itself under   *)
(* a timer of its own.  rq.fetches counts the fetches the request has      *)
(* started, rq.deadline is when the timer of the running one fires.        *)
(***************************************************************************)
DirectTimeoutMs == 5000
MicrolinkTimeoutMs == 15000
FallbackTimeoutMs == 15000
PreviewHorizon == 45000
PreviewAdvances == {5000, 10000}
PreviewRoutes == {"direct", "microlink"}
FetchOutcomes == {"ok", "notOk", "networkError"}

\* requireAuth, validate(previewUrlSchema), sanitizeUrl, then the first
\* fetch is started.
PV_Start(route, cookie, valid) ==
  /\ NoRequest
  /\ IF ~requireAuth(cookie)
       THEN RqRefuse("preview", 401)
       ELSE IF ~valid
         THEN RqRefuse("preview", 400)
         ELSE /\ rq' = [IdleRq EXCEPT
                          !.op = "preview", !.pc = "fetch", !.route = route,
                          !.userId = cookie.userId, !.fetches = 1,
                          !.deadline = now + (IF route = "direct"
                                                THEN DirectTimeoutMs
                                                ELSE MicrolinkTimeoutMs)]
              /\ UNCHANGED last
  /\ UNCHANGED store /\ RqFrame

\* The fetch of extractMetadataFromHTML(url) is started.
StartFallback ==
  /\ rq' = [rq EXCEPT !.pc = "fallback", !.fetches = @ + 1,
                      !.deadline = now + FallbackTimeoutMs]
  /\ UNCHANGED last

\* The first fetch settles before its timer fires.
PV_FetchCompletes(outcome) ==
  /\ RqAt("preview", "fetch")
  /\ now <= rq.deadline
  /\ IF outcome = "ok"
       THEN RqRespond(200, "unchanged", {[source |-> rq.route]})
       ELSE IF rq.route = "direct"
         THEN RqRespond(400, "unchanged", {})
         ELSE StartFallback
  /\ UNCHANGED store /\ RqFrame

\* The timer of the first fetch fires: the fetch is aborted.  The direct
\* route answers 408 on the AbortError; the microlink route catches the
\* error and goes on to its fallback.
PV_Timeout ==
  /\ RqAt("preview", "fetch")
  /\ now >= rq.deadline
  /\ IF rq.route = "direct"
       THEN RqRespond(408, "unchanged", {})
       ELSE StartFallback
  /\ UNCHANGED store /\ RqFrame

\* The fallback fetch settles before its timer fires.
PV_FallbackCompletes(outcome) ==
  /\ RqAt("preview", "fallback")
  /\ now <= rq.deadline
  /\ IF outcome = "ok"
       THEN RqRespond(200, "unchanged", {[source |-> "local"]})
       ELSE RqRespond(400, "unchanged", {})
  /\ UNCHANGED store /\ RqFrame

\* The timer of the fallback fetch fires: extractMetadataFromHTML throws
\* 'Failed to fetch URL' and the route answers 400.
PV_FallbackTimeout ==
  /\ RqAt("preview", "fallback")
  /\ now >= rq.deadline
  /\ RqRespond(400, "unchanged", {})
  /\ UNCHANGED store /\ RqFrame

\* Date.now() moves on, not past the moment a timer is due.
PreviewTick(d) ==
  /\ now + d <= PreviewHorizon
  /\ rq.op = "preview" => now + d <= rq.deadline
  /\ now' = now + d
  /\ UNCHANGED <<store, cc, last, rq, rateLimitStore, admittedAt>>

PreviewInit ==
  /\ users = {[_id |-> u, passwordHash |-> Hash(PasswordOf(u))] : u \in UserIds}
  /\ lists = {}
  /\ items = {}
  /\ claims = {}
  /\ nextId = [lists |-> 1, items |-> 1, claims |-> 1]
  /\ cc = [p \in Procs |-> IdleProc]
  /\ last = Response("none", 0, "unchanged", {})
  /\ AuxInit

PreviewStarts ==
  \E route \in PreviewRoutes, cookie \in Cookies, valid \in BOOLEAN :
    PV_Start(route, cookie, valid)
PreviewFetchCompletes == \E outcome \in FetchOutcomes : PV_FetchCompletes(outcome)
PreviewFallbackCompletes == \E outcome \in FetchOutcomes : PV_FallbackCompletes(outcome)
PreviewClock == \E d \in PreviewAdvances : PreviewTick(d)

PreviewNext ==
  \/ PreviewStarts
  \/ PreviewFetchCompletes
  \/ PV_Timeout
  \/ PreviewFallbackCompletes
  \/ PV_FallbackTimeout
  \/ PreviewClock

SpecPreview == PreviewInit /\ [][PreviewNext]_vars

\* The metadata fetch of the preview in progress has not completed when
\* its timer is due.
FetchTimedOut == RqAt("preview", "fetch") /\ now >= rq.deadline

\* The request ends with 408 and has made one fetch.
EndsWithTimeout ==
  /\ last'.status = 408
  /\ rq'.pc = "idle"
  /\ rq.fetches = 1

\* The routes that fetch the page themselves time out as stated, and no
\* request of theirs fetches twice.
DirectPreviewTimesOut ==
  /\ (FetchTimedOut /\ rq.route = "direct") => ~ENABLED (PV_Timeout /\ ~EndsWithTimeout)
  /\ rq.route = "direct" => rq.fetches <= 1

\* C30: when the metadata fetch of a preview request does not complete
\* within its timeout the fetch is aborted, the request ends with 408 and
\* no second fetch is made for that request.
C30_TimeoutEndsRequest ==
  FetchTimedOut => ~ENABLED (PV_Timeout /\ ~EndsWithTimeout)

=============================================================================
